---- MODULE Spec2Model ----
(***************************************************************************)
(* Deep-research orchestration: the full agent (clarification, brief,      *)
(* supervisor loop with concurrently running sub-agents, report), the      *)
(* stand-alone supervisor, the manual tool-selection agent, the lean       *)
(* research agent, the graph research agents (llm_call, tool_node,         *)
(* compress_research) and the lean scoping loop.                           *)
(*                                                                         *)
(* Text is modelled as a sequence of tokens <<kind, n>>, so that joining,  *)
(* trimming and emptiness tests are computed and not assumed.  The         *)
(* language model, the user and the tools are the environment: their       *)
(* answers are drawn from small sets.                                      *)
(***************************************************************************)
EXTENDS Integers, Sequences, FiniteSets, TLC

\* ---- bounds of the exploration -------------------------------------------
MaxClarify == 2       \* clarification rounds the model may ask for
MaxBatch == 2         \* tool calls in one supervisor response
MaxSubBatch == 2      \* tool calls in one sub-agent response
MaxDelegations == 2   \* ConductResearch calls emitted in one run
MaxClock == 2         \* milliseconds the clock may advance in one run
MaxCycles == 6        \* tool-calling cycles followed in one graph run

\* ---- program constants ---------------------------------------------------
maxResearchIterations == 10
maxIterations == 5
maxConcurrentResearchers == 3
retries == 5

VARIABLES
    program,           \* which entry point runs: "full", "supervisor", "manual",
                       \* "lean", "research_agent", "part_001", "part_003",
                       \* "part_004", "scoping_lean", "scoping_graph",
                       \* "research_agent_evaluation", "scoping_evaluation",
                       \* "invokeWithRetry"
    pc,                \* position of main
    clarifyMessages,   \* verifyRequest: messages
    pendingQuestion,   \* verifyRequest: response.question while askUser is awaited
    response,          \* verifyRequest: the last answer of the clarification model
    researchBrief,     \* main: researchBrief
    messages,          \* runResearch: messages (the supervisor log)
    iterations,        \* runResearch: iterations
    researchFindings,  \* runResearch: researchFindings
    shouldStop,        \* runResearch: shouldStop
    toolPromises,      \* runResearch: toolPromises of the current batch
    supPc,             \* position of runResearch
    agents,            \* the conductResearch instances of the current batch
    allFindings,       \* main: allFindings
    reportCalls,       \* number of generateReport invocations
    reportFile,        \* content of final_report.md
    reportInput,       \* the arguments generateReport was called with
    clock,             \* Date.now() as last read (manual tool-selection agent)
    failed,            \* the call sites whose model call has thrown so far
    node,              \* graph agents: the node that runs next
    researcher_messages,   \* graph agents: state.researcher_messages
    tool_call_iterations,  \* graph agents: state.tool_call_iterations
    attempt,           \* invokeWithRetry: i
    invocations,       \* model.invoke calls made by the current invokeWithRetry
    thrown,            \* graph agents: the error the run was rejected with
    contextMessages,   \* llm_call: the view last sent to the model
    compressInput,     \* compress_research: the messages last sent to compressModel
    raw_notes,         \* graph agents: state.raw_notes
    waited,            \* invokeWithRetry: the delays slept in the current call
    evalInput,         \* evaluators, invokeWithRetry: the arguments of the call
    evalLocals,        \* evaluators: the locals of the call in progress
    evalResult         \* evaluators, invokeWithRetry: how the call completed

vars == <<program, pc, clarifyMessages, pendingQuestion, response, researchBrief,
          messages, iterations, researchFindings, shouldStop, toolPromises, supPc,
          agents, allFindings, reportCalls, reportFile, clock, failed, node,
          researcher_messages, tool_call_iterations, attempt, invocations, thrown,
          reportInput, contextMessages, compressInput, raw_notes, waited,
          evalInput, evalLocals, evalResult>>

evalVars == <<evalInput, evalLocals, evalResult>>

stageVars == <<clarifyMessages, pendingQuestion, response, researchBrief>>
graphVars == <<node, researcher_messages, tool_call_iterations, attempt,
               invocations, thrown, contextMessages, compressInput, raw_notes,
               waited>>
loopVars == <<messages, iterations, researchFindings, shouldStop, toolPromises>>
reportVars == <<allFindings, reportCalls, reportFile, reportInput>>

\* ---- text ----------------------------------------------------------------
Str(k, n) == << <<k, n>> >>
EmptyStr == <<>>
Sep == <<"\n\n", 0>>
RuleSep == <<"\n\n---\n\n", 0>>
IsSpace(tok) == tok[1] = "\n\n"

\* Array.prototype.join
RECURSIVE Join(_, _)
Join(list, sep) ==
    IF list = <<>> THEN EmptyStr
    ELSE IF Len(list) = 1 THEN list[1]
    ELSE list[1] \o <<sep>> \o Join(Tail(list), sep)

RECURSIVE TrimStart(_)
TrimStart(s) ==
    IF s = <<>> THEN s
    ELSE IF IsSpace(s[1]) THEN TrimStart(Tail(s))
    ELSE s

RECURSIVE TrimEnd(_)
TrimEnd(s) ==
    IF s = <<>> THEN s
    ELSE IF IsSpace(s[Len(s)]) THEN TrimEnd(SubSeq(s, 1, Len(s) - 1))
    ELSE s

Trim(s) == TrimEnd(TrimStart(s))

ErrorText(message) == Str("Error: ", 0) \o message

\* ---- turns ---------------------------------------------------------------
NoId == <<0, 0, 0>>

SystemMessage(c) ==
    [type |-> "system", content |-> c, tool_calls |-> <<>>,
     tool_call_id |-> NoId, name |-> ""]

HumanMessage(c) ==
    [type |-> "human", content |-> c, tool_calls |-> <<>>,
     tool_call_id |-> NoId, name |-> ""]

AIMessage(c, calls) ==
    [type |-> "ai", content |-> c, tool_calls |-> calls,
     tool_call_id |-> NoId, name |-> ""]

ToolMessage(id, c, n) ==
    [type |-> "tool", content |-> c, tool_calls |-> <<>>,
     tool_call_id |-> id, name |-> n]

NoMessage ==
    [type |-> "none", content |-> EmptyStr, tool_calls |-> <<>>,
     tool_call_id |-> NoId, name |-> ""]

ToolCall(id, n, a) == [id |-> id, name |-> n, args |-> a]

\* ---- tools ---------------------------------------------------------------
supervisorToolNames == {"ConductResearch", "ResearchComplete", "think_tool"}
subAgentToolNames == {"tavily_search", "think_tool"}
UnknownTool == "unknown_tool"

CountCalls(calls, n) == Cardinality({i \in 1..Len(calls) : calls[i].name = n})

RECURSIVE NumDelegated(_)
NumDelegated(log) ==
    IF log = <<>> THEN 0
    ELSE CountCalls(log[Len(log)].tool_calls, "ConductResearch")
         + NumDelegated(SubSeq(log, 1, Len(log) - 1))

\* ---- the environment: what the language model may answer ----------------
\* The supervisor's model answers any batch of at most MaxBatch calls in its
\* first cycle, any single call in its second, and afterwards only reflects,
\* answers without tool calls or fails.  In its first cycle it may also ask
\* for one delegation more than maxConcurrentResearchers in a single batch;
\* the sub-agents of such a wide batch answer without tool calls.
\* A sub-agent's model answers any batch of at most MaxSubBatch calls in its
\* first cycle when it is the only delegation of its batch, and otherwise
\* only searches, answers or fails.
WideBatch == [i \in 1..(maxConcurrentResearchers + 1) |-> "ConductResearch"]

Wide(calls) == CountCalls(calls, "ConductResearch") > maxConcurrentResearchers

\* one callback, and so one conductResearch instance, per call of a batch
Slots == IF MaxBatch > Len(WideBatch) THEN MaxBatch ELSE Len(WideBatch)

NameSeqs(S, n) == UNION {[1..m -> S] : m \in 1..n}

CountName(names, n, upto) == Cardinality({j \in 1..upto : names[j] = n})

\* The tool calls of one supervisor response: ids are unique per emission,
\* every ConductResearch call names the next fresh topic.
SupervisorCalls(names, cycle, delegated) ==
    [i \in 1..Len(names) |->
        ToolCall(<<0, cycle, i>>, names[i],
                 IF names[i] = "ConductResearch"
                 THEN Str("topic", delegated + CountName(names, "ConductResearch", i))
                 ELSE EmptyStr)]

SupervisorBatches(log, used) ==
    LET delegated == NumDelegated(log)
        shapes == IF used = 0
                  THEN NameSeqs(supervisorToolNames \cup {UnknownTool}, MaxBatch)
                  ELSE IF used = 1
                  THEN NameSeqs(supervisorToolNames \cup {UnknownTool}, 1)
                  ELSE {<<"think_tool">>}
    IN {SupervisorCalls(names, used + 1, delegated) :
          names \in {ns \in shapes :
                       delegated + CountName(ns, "ConductResearch", Len(ns))
                           <= MaxDelegations}
                    \cup (IF used = 0 THEN {WideBatch} ELSE {})}

SubAgentCalls(names, owner, cycle) ==
    [i \in 1..Len(names) |-> ToolCall(<<owner, cycle, i>>, names[i], EmptyStr)]

SubAgentBatches(owner, used, alone) ==
    LET shapes == IF alone /\ used = 0
                  THEN NameSeqs(subAgentToolNames \cup {UnknownTool}, MaxSubBatch)
                  ELSE {<<"tavily_search">>}
    IN {SubAgentCalls(names, owner, used + 1) : names \in shapes}

ModelFailure == Str("model failure", 0)

NoResponse == <<>>

\* ---- sub-agent instances -------------------------------------------------
Idle ==
    [pc |-> "idle", topic |-> EmptyStr, iterations |-> 0, messages |-> <<>>,
     compressCalls |-> 0]

StartedWithHistory(topic) ==
    [pc |-> "loop", topic |-> topic, iterations |-> 0,
     messages |-> <<HumanMessage(Str("request", 0)), HumanMessage(topic)>>,
     compressCalls |-> 0]

\* const messages = [new HumanMessage(topic)]; let iterations = 0
Started(topic) ==
    [pc |-> "loop", topic |-> topic, iterations |-> 0,
     messages |-> <<HumanMessage(topic)>>, compressCalls |-> 0]

Owner(agent) == agent.topic[1][2]

\* result of one tool call inside conductResearch's for loop
SubAgentToolResult(call) ==
    IF call.name = "tavily_search" THEN Str("search result", 0)
    ELSE IF call.name = "think_tool" THEN Str("Reflection recorded", 0)
    ELSE ErrorText(Str("tool is undefined", 0))

SubAgentToolMessages(calls) ==
    [i \in 1..Len(calls) |->
        ToolMessage(calls[i].id, SubAgentToolResult(calls[i]), calls[i].name)]

Pending == [state |-> "pending", value |-> NoMessage]
Fulfilled(m) == [state |-> "fulfilled", value |-> m]

\* ---- initial states ------------------------------------------------------
InitCommon ==
    /\ pendingQuestion = EmptyStr
    /\ response = NoResponse
    /\ researchBrief = EmptyStr
    /\ iterations = 0
    /\ researchFindings = <<>>
    /\ shouldStop = FALSE
    /\ toolPromises = <<>>
    /\ allFindings = EmptyStr
    /\ reportCalls = 0
    /\ reportFile = EmptyStr
    /\ reportInput = <<>>
    /\ clock = 0
    /\ failed = {}

\* no graph is running
InitNoGraph ==
    /\ node = "none"
    /\ researcher_messages = <<>>
    /\ tool_call_iterations = 0
    /\ attempt = 0
    /\ invocations = 0
    /\ thrown = EmptyStr
    /\ contextMessages = <<>>
    /\ compressInput = <<>>
    /\ raw_notes = <<>>
    /\ waited = <<>>

\* main of the full agent, entered at the clarification stage
InitFull ==
    /\ program = "full"
    /\ pc = "verifyRequest"
    /\ clarifyMessages = <<HumanMessage(Str("request", 0))>>
    /\ messages = <<>>
    /\ supPc = "idle"
    /\ agents = [i \in 1..Slots |-> Idle]
    /\ InitCommon
    /\ InitNoGraph

\* runSupervisor of the stand-alone supervisor, entered at its loop
InitSupervisor ==
    /\ program = "supervisor"
    /\ pc = "runResearch"
    /\ clarifyMessages = <<>>
    /\ messages = <<HumanMessage(Str("request", 0))>>
    /\ supPc = "loop"
    /\ agents = [i \in 1..Slots |-> Idle]
    /\ InitCommon
    /\ InitNoGraph

\* main of the manual tool-selection agent
InitManual ==
    /\ program = "manual"
    /\ pc = "verifyRequest"
    /\ clarifyMessages = <<HumanMessage(Str("request", 0))>>
    /\ messages = <<>>
    /\ supPc = "idle"
    /\ agents = [i \in 1..Slots |-> Idle]
    /\ InitCommon
    /\ InitNoGraph

\* run of the lean research agent, entered at its loop
InitLean ==
    /\ program = "lean"
    /\ pc = "run"
    /\ clarifyMessages = <<>>
    /\ messages = <<>>
    /\ supPc = "idle"
    /\ agents = [i \in 1..Slots |->
                   IF i = 1 THEN Started(Str("request", 0)) ELSE Idle]
    /\ InitCommon
    /\ InitNoGraph


\* ---- 1. clarification stage ----------------------------------------------
Rounds(log) == (Len(log) - 1) \div 2

\* The structured answers of the clarification model.  It asks for at most
\* MaxClarify rounds; when it needs no clarification the question and the
\* verification fields are each either absent (empty) or present.
ClarifyResponses(log) ==
    LET round == Rounds(log) + 1
    IN (IF round <= MaxClarify
        THEN {[need_clarification |-> TRUE, question |-> Str("question", round),
               verification |-> EmptyStr]}
        ELSE {})
       \cup {[need_clarification |-> FALSE, question |-> q, verification |-> v] :
               q \in {EmptyStr, Str("question", round)},
               v \in {EmptyStr, Str("verification", 0)}}

NeedClarificationCapped(r, log) == r.need_clarification /\ Rounds(log) < 1

\* if (response.need_clarification), whatever the number of rounds so far
NeedClarification(r, log) == r.need_clarification

\* one pass of verifyRequest's while (true) up to askUser or the return
VerifyRequestInvoke ==
    /\ pc = "verifyRequest"
    /\ program \in {"full", "manual"}
    /\ \/ \E r \in ClarifyResponses(clarifyMessages) :
            /\ response' = <<r>>
            /\ IF NeedClarification(r, clarifyMessages)
               THEN pc' = "askUser" /\ pendingQuestion' = r.question
               ELSE pc' = "createBrief" /\ UNCHANGED pendingQuestion
            /\ UNCHANGED failed
       \/ /\ pc' = "rejected"                          \* the model call throws
          /\ failed' = failed \cup {"verifyRequest"}
          /\ UNCHANGED <<pendingQuestion, response>>
    /\ UNCHANGED <<graphVars, program, evalVars, clarifyMessages, researchBrief, loopVars, supPc,
                   agents, reportVars, clock>>

ClarificationAnswerOnly(question, answer) == <<HumanMessage(answer)>>

\* messages.push(new AIMessage(response.question)); messages.push(new HumanMessage(userResponse))
Clarification(question, answer) == <<AIMessage(question, <<>>), HumanMessage(answer)>>

AskUserAnswer ==
    /\ pc = "askUser"
    /\ program \in {"full", "manual"}
    /\ clarifyMessages' = clarifyMessages
            \o Clarification(pendingQuestion, Str("answer", Rounds(clarifyMessages) + 1))
    /\ pendingQuestion' = EmptyStr
    /\ pc' = "verifyRequest"
    /\ UNCHANGED <<graphVars, program, evalVars, response, researchBrief, loopVars, supPc,
                   agents, reportVars, clock, failed>>

\* ---- 2. brief generation stage; entry of runResearch ---------------------
CreateBrief ==
    /\ pc = "createBrief"
    /\ program \in {"full", "manual"}
    /\ response' = NoResponse                         \* verifyRequest has returned
    /\ \/ /\ researchBrief' = Str("brief", 0)
          /\ pc' = "runResearch"
          /\ messages' = <<HumanMessage(Str("brief", 0))>>
          /\ supPc' = "loop"
          /\ UNCHANGED failed
       \/ /\ pc' = "rejected"                          \* the model call throws
          /\ failed' = failed \cup {"createBrief"}
          /\ UNCHANGED <<researchBrief, messages, supPc>>
    /\ UNCHANGED <<graphVars, program, evalVars, clarifyMessages, pendingQuestion, iterations,
                   researchFindings, shouldStop, toolPromises, agents,
                   reportVars, clock>>

\* ---- 3. research stage: the supervisor loop ------------------------------
CurrentCalls == messages[Len(messages)].tool_calls

IncrementPerCall(n, toolCalls) == n + Len(toolCalls)

\* iterations++, once for a response that carries tool calls
Increment(n, toolCalls) == n + 1

RunResearchWhileOffByOne == iterations <= maxResearchIterations

\* while (iterations < maxResearchIterations)
RunResearchWhile == iterations < maxResearchIterations

ConductResearchWhileOffByOne(agent) == agent.iterations <= maxIterations

\* while (iterations < maxIterations)
ConductResearchWhile(agent) == agent.iterations < maxIterations

StartCallWithoutId(call) ==
    IF call.name \notin supervisorToolNames
    THEN Fulfilled(ToolMessage(NoId, Str("Error: Tool not found", 0), call.name))
    ELSE IF call.name = "ResearchComplete"
    THEN Fulfilled(ToolMessage(call.id, Str("Research Completed.", 0), call.name))
    ELSE Pending

\* the synchronous part of the callback that toolCalls.map starts for one call
StartCall(call) ==
    IF call.name \notin supervisorToolNames
    THEN Fulfilled(ToolMessage(call.id, Str("Error: Tool not found", 0), call.name))
    ELSE IF call.name = "ResearchComplete"
    THEN Fulfilled(ToolMessage(call.id, Str("Research Completed.", 0), call.name))
    ELSE Pending

SupervisorModelThrowsCaught ==
    /\ supPc' = "return"
    /\ UNCHANGED pc

\* nothing catches a throw of modelWithTools.invoke: runResearch and main reject
SupervisorModelThrows ==
    /\ pc' = "rejected"
    /\ supPc' = "thrown"

SupervisorInvoke ==
    /\ pc = "runResearch"
    /\ supPc = "loop"
    /\ program \in {"full", "supervisor"}
    /\ RunResearchWhile
    /\ \/ /\ SupervisorModelThrows
          /\ failed' = failed \cup {"supervisor"}
          /\ UNCHANGED <<messages, iterations, shouldStop, toolPromises, agents>>
       \/ /\ messages' = Append(messages, AIMessage(Str("answer", 0), <<>>))
          /\ supPc' = "return"                         \* no tool calls: break
          /\ UNCHANGED <<pc, iterations, shouldStop, toolPromises, agents, failed>>
       \/ \E calls \in SupervisorBatches(messages, iterations) :
            /\ messages' = Append(messages, AIMessage(EmptyStr, calls))
            /\ iterations' = Increment(iterations, calls)
            /\ shouldStop' = (\E i \in 1..Len(calls) : calls[i].name = "ResearchComplete")
            /\ toolPromises' = [i \in 1..Len(calls) |-> StartCall(calls[i])]
            /\ agents' = [i \in 1..Slots |->
                            IF i <= Len(calls) /\ calls[i].name = "ConductResearch"
                            THEN Started(calls[i].args)
                            ELSE Idle]
            /\ supPc' = "awaitAll"
            /\ UNCHANGED <<pc, failed>>
    /\ UNCHANGED <<graphVars, program, evalVars, stageVars, researchFindings, reportVars, clock>>

CollectEvery(findings, call, result) ==
    IF program = "full" THEN Append(findings, result) ELSE findings

\* if (toolCall.name === "ConductResearch") researchFindings.push(result)
Collect(findings, call, result) ==
    IF program = "full" /\ call.name = "ConductResearch"
    THEN Append(findings, result)
    ELSE findings

\* the rest of the callback once tool.invoke has settled: collect, resolve
Settle(i, result) ==
    /\ researchFindings' = Collect(researchFindings, CurrentCalls[i], result)
    /\ toolPromises' = [toolPromises EXCEPT ![i] =
           Fulfilled(ToolMessage(CurrentCalls[i].id, result, CurrentCalls[i].name))]

ToolInvokeThrowsUncaught(i, message) ==
    /\ pc' = "rejected"
    /\ supPc' = "thrown"
    /\ UNCHANGED <<researchFindings, toolPromises>>

\* try { result = await tool.invoke(...) } catch (e) { result = `Error: ${e.message}` }
ToolInvokeThrows(i, message) ==
    /\ Settle(i, ErrorText(message))
    /\ UNCHANGED <<pc, supPc>>

ToolInvokeReturns(i, result) ==
    /\ Settle(i, result)
    /\ UNCHANGED <<pc, supPc>>

Finished(how, compressions) ==
    [Idle EXCEPT !.pc = how, !.compressCalls = compressions]

\* one pass of conductResearch's while loop: model call, then the tool calls
SubAgentCycle(i) ==
    /\ program \in {"full", "supervisor"}
    /\ supPc = "awaitAll"
    /\ agents[i].pc = "loop"
    /\ ConductResearchWhile(agents[i])
    /\ \/ /\ ~Wide(CurrentCalls)
          /\ agents' = [agents EXCEPT ![i] = Finished("thrown", @.compressCalls)]
          /\ failed' = failed \cup {"subAgent"}
          /\ ToolInvokeThrows(i, ModelFailure)
       \/ /\ agents' = [agents EXCEPT
                          ![i].messages = Append(@, AIMessage(Str("answer", 0), <<>>)),
                          ![i].pc = "compress"]
          /\ UNCHANGED <<researchFindings, toolPromises, pc, supPc, failed>>
       \/ \E calls \in SubAgentBatches(Owner(agents[i]), agents[i].iterations,
                                       CountCalls(CurrentCalls, "ConductResearch") = 1) :
            /\ ~Wide(CurrentCalls)
            /\ agents' = [agents EXCEPT
                            ![i].messages = Append(@, AIMessage(EmptyStr, calls))
                                              \o SubAgentToolMessages(calls),
                            ![i].iterations = Increment(@, calls)]
            /\ UNCHANGED <<researchFindings, toolPromises, pc, supPc, failed>>
    /\ UNCHANGED <<graphVars, program, evalVars, stageVars, messages, iterations, shouldStop,
                   reportVars, clock>>

\* compressModel.invoke([SystemMessage(compressionPrompt), ...messages, HumanMessage(humanMessage)])
ConductResearchCompressInput(agent) ==
    <<SystemMessage(Str("compress_research_system_prompt", 0))>>
    \o agent.messages
    \o <<HumanMessage(Str("compress_research_human_message", 0) \o agent.topic)>>

\* conductResearch after its loop: the compression call and the return
SubAgentCompress(i) ==
    /\ program \in {"full", "supervisor"}
    /\ supPc = "awaitAll"
    /\ \/ agents[i].pc = "compress"
       \/ agents[i].pc = "loop" /\ ~ConductResearchWhile(agents[i])
    /\ \/ /\ agents' = [agents EXCEPT ![i] = Finished("returned", @.compressCalls + 1)]
          /\ ToolInvokeReturns(i, Str("report", Owner(agents[i])))
          /\ UNCHANGED failed
       \/ /\ ~Wide(CurrentCalls)
          /\ agents' = [agents EXCEPT ![i] = Finished("thrown", @.compressCalls + 1)]
          /\ failed' = failed \cup {"compress"}
          /\ ToolInvokeThrows(i, ModelFailure)
    /\ UNCHANGED <<graphVars, program, evalVars, stageVars, messages, iterations, shouldStop,
                   reportVars, clock>>

ThinkToolSettle(i) ==
    /\ supPc = "awaitAll"
    /\ i <= Len(toolPromises)
    /\ toolPromises[i].state = "pending"
    /\ CurrentCalls[i].name = "think_tool"
    /\ ToolInvokeReturns(i, Str("Reflection recorded", 0))
    /\ UNCHANGED <<graphVars, program, evalVars, stageVars, messages, iterations, shouldStop, agents,
                   reportVars, clock, failed>>

AnySettled(promises) == \E i \in 1..Len(promises) : promises[i].state = "fulfilled"

\* Promise.all resolves when every promise has
AllSettled(promises) == \A i \in 1..Len(promises) : promises[i].state = "fulfilled"

ToolMessagesReversed(promises) ==
    [i \in 1..Len(promises) |-> promises[Len(promises) + 1 - i].value]

\* the array Promise.all resolves to: the values in the order of the promises
ToolMessagesOf(promises) == [i \in 1..Len(promises) |-> promises[i].value]

AfterBatchIgnoringStop(stop) == "loop"

\* if (shouldStop) break
AfterBatch(stop) == IF stop THEN "return" ELSE "loop"

\* await Promise.all(toolPromises); messages.push(...toolMessages)
PromiseAll ==
    /\ supPc = "awaitAll"
    /\ AllSettled(toolPromises)
    /\ messages' = messages \o ToolMessagesOf(toolPromises)
    /\ toolPromises' = <<>>
    /\ supPc' = AfterBatch(shouldStop)
    /\ UNCHANGED <<graphVars, program, evalVars, pc, stageVars, iterations, researchFindings,
                   shouldStop, agents, reportVars, clock, failed>>

LoopExhausted ==
    /\ pc = "runResearch"
    /\ supPc = "loop"
    /\ ~RunResearchWhile
    /\ supPc' = "return"
    /\ UNCHANGED <<graphVars, program, evalVars, pc, stageVars, loopVars, agents, reportVars, clock,
                   failed>>

\* ---- return of runResearch into main, 4. report generation --------------
\* !allFindings || allFindings.trim().length === 0
NoFindings(text) == Trim(text) = EmptyStr

ReportArgsFromRequest(brief, findings) ==
    <<[researchBrief |-> Str("request", 0), findings |-> findings]>>

\* generateReport(model, researchBrief, allFindings)
ReportArgs(brief, findings) == <<[researchBrief |-> brief, findings |-> findings]>>

\* return researchFindings.join("\n\n"), then main up to the report call
RunResearchReturn ==
    /\ pc = "runResearch"
    /\ supPc = "return"
    /\ program \in {"full", "manual"}
    /\ allFindings' = Join(researchFindings, Sep)
    /\ supPc' = "returned"
    /\ IF NoFindings(Join(researchFindings, Sep))
       THEN pc' = "exitNoFindings" /\ UNCHANGED <<reportCalls, reportInput>>
       ELSE /\ pc' = "generateReport"
            /\ reportCalls' = reportCalls + 1
            /\ reportInput' = ReportArgs(researchBrief, Join(researchFindings, Sep))
    /\ UNCHANGED <<graphVars, program, evalVars, stageVars, loopVars, agents, reportFile, clock, failed>>

RECURSIVE ConductResearchContentsNewestFirst(_)
ConductResearchContentsNewestFirst(log) ==
    IF log = <<>> THEN <<>>
    ELSE IF log[1].type = "tool" /\ log[1].name = "ConductResearch"
    THEN ConductResearchContentsNewestFirst(Tail(log)) \o <<log[1].content>>
    ELSE ConductResearchContentsNewestFirst(Tail(log))

\* runSupervisor after its loop: the findings are read back from the log
RECURSIVE ConductResearchContents(_)
ConductResearchContents(log) ==
    IF log = <<>> THEN <<>>
    ELSE IF log[1].type = "tool" /\ log[1].name = "ConductResearch"
    THEN <<log[1].content>> \o ConductResearchContents(Tail(log))
    ELSE ConductResearchContents(Tail(log))

RunSupervisorReturn ==
    /\ pc = "runResearch"
    /\ supPc = "return"
    /\ program = "supervisor"
    /\ allFindings' = Join(ConductResearchContents(messages), RuleSep)
    /\ supPc' = "returned"
    /\ pc' = "exit"
    /\ UNCHANGED <<graphVars, program, evalVars, stageVars, loopVars, agents, reportCalls, reportFile,
                   reportInput, clock, failed>>

\* generateReport's model call, then fs.writeFileSync
GenerateReport ==
    /\ pc = "generateReport"
    /\ \/ /\ reportFile' = Str("final report", 0)
          /\ pc' = "exitSaved"
          /\ UNCHANGED failed
       \/ /\ pc' = "rejected"                          \* the model call throws
          /\ failed' = failed \cup {"generateReport"}
          /\ UNCHANGED reportFile
    /\ UNCHANGED <<graphVars, program, evalVars, stageVars, loopVars, supPc, agents, allFindings,
                   reportCalls, reportInput, clock>>

\* ---- the manual tool-selection agent -------------------------------------
\* `call_${Date.now()}`; the clock may have advanced since it was last read
CallId(t) == <<-1, t, 0>>
Ticks(c) == {c} \cup (IF c < MaxClock THEN {c + 1} ELSE {})

\* The selector model names any tool in the first two cycles of the
\* supervisor and in the first cycle of a sub-agent, afterwards one fixed tool.
ManualSupervisorNames(log, used) ==
    IF used >= 2 THEN {"think_tool"}
    ELSE {"ResearchComplete", "think_tool", UnknownTool}
         \cup (IF NumDelegated(log) < MaxDelegations THEN {"ConductResearch"} ELSE {})

ManualSubAgentNames(used) ==
    IF used = 0 THEN subAgentToolNames \cup {UnknownTool} ELSE {"tavily_search"}

\* one pass of runResearch's while loop up to the first tool that awaits a model
ManualSupervisorCycle ==
    /\ program = "manual"
    /\ pc = "runResearch"
    /\ supPc = "loop"
    /\ RunResearchWhile
    /\ \/ /\ supPc' = "return"                 \* selectTool throws: caught, break
          /\ failed' = failed \cup {"supervisor"}
          /\ UNCHANGED <<messages, iterations, agents, clock>>
       \/ /\ supPc' = "return"                 \* no selected_tool: break
          /\ UNCHANGED <<messages, iterations, agents, clock, failed>>
       \/ \E name \in ManualSupervisorNames(messages, iterations), t \in Ticks(clock) :
            LET topic == Str("topic", NumDelegated(messages) + 1)
                call == ToolCall(CallId(t), name,
                                 IF name = "ConductResearch" THEN topic ELSE EmptyStr)
                pushed == Append(messages, AIMessage(Str("thought", 0), <<call>>))
            IN /\ clock' = t
               /\ iterations' = iterations + 1
               /\ UNCHANGED failed
               /\ IF name = "ResearchComplete"
                  THEN /\ messages' = pushed
                       /\ supPc' = "return"
                       /\ UNCHANGED agents
                  ELSE IF name = "ConductResearch"
                  THEN /\ messages' = pushed
                       /\ supPc' = "awaitTool"
                       /\ agents' = [agents EXCEPT ![1] = Started(topic)]
                  ELSE IF name = "think_tool"
                  THEN /\ messages' = Append(pushed,
                              ToolMessage(CallId(t), Str("Reflection recorded", 0), name))
                       /\ supPc' = "loop"
                       /\ UNCHANGED agents
                  ELSE /\ messages' = Append(pushed,
                              ToolMessage(CallId(t), Str("Error: Tool not found", 0), name))
                       /\ supPc' = "loop"
                       /\ UNCHANGED agents
    /\ UNCHANGED <<graphVars, program, evalVars, pc, stageVars, researchFindings, shouldStop,
                   toolPromises, reportVars>>

SelectToolThrowsUncaught(agent) == Finished("thrown", agent.compressCalls)

\* try { selection = await selectTool(...) } catch (e) { console.error(...); break }
SelectToolThrows(agent) == [agent EXCEPT !.pc = "compress"]

\* one pass of the manual conductResearch's while loop
ManualSubAgentCycle ==
    /\ program = "manual"
    /\ supPc = "awaitTool"
    /\ agents[1].pc = "loop"
    /\ ConductResearchWhile(agents[1])
    /\ \/ /\ agents' = [agents EXCEPT ![1] = SelectToolThrows(@)]
          /\ failed' = failed \cup {"subAgent"}
          /\ UNCHANGED clock
       \/ /\ agents' = [agents EXCEPT ![1].pc = "compress"]   \* no selected_tool
          /\ UNCHANGED <<clock, failed>>
       \/ \E name \in ManualSubAgentNames(agents[1].iterations) :
            /\ UNCHANGED failed
            /\ IF name \in subAgentToolNames
               THEN \E t1 \in Ticks(clock) : \E t2 \in Ticks(t1) :
                      /\ clock' = t2
                      /\ agents' = [agents EXCEPT
                           ![1].iterations = @ + 1,
                           ![1].messages = @ \o
                             <<AIMessage(Str("thought", 0),
                                         <<ToolCall(CallId(t1), name, EmptyStr)>>),
                               ToolMessage(CallId(t2), SubAgentToolResult(
                                             ToolCall(CallId(t1), name, EmptyStr)), name)>>]
               ELSE /\ agents' = [agents EXCEPT
                           ![1].iterations = @ + 1,
                           ![1].messages = Append(@,
                               AIMessage(Str("Error: Tool not found", 0), <<>>))]
                    /\ UNCHANGED clock
    /\ UNCHANGED <<graphVars, program, evalVars, pc, stageVars, loopVars, supPc, reportVars>>

\* the manual conductResearch after its loop, and the rest of runResearch's pass
ManualSubAgentCompress ==
    /\ program = "manual"
    /\ supPc = "awaitTool"
    /\ \/ agents[1].pc = "compress"
       \/ agents[1].pc = "loop" /\ ~ConductResearchWhile(agents[1])
    /\ \/ /\ agents' = [agents EXCEPT ![1] = Finished("returned", @.compressCalls + 1)]
          /\ researchFindings' = Append(researchFindings, Str("report", Owner(agents[1])))
          /\ messages' = Append(messages,
                 ToolMessage(CurrentCalls[1].id, Str("report", Owner(agents[1])),
                             CurrentCalls[1].name))
          /\ UNCHANGED failed
       \/ /\ agents' = [agents EXCEPT ![1] = Finished("thrown", @.compressCalls + 1)]
          /\ researchFindings' = Append(researchFindings, ErrorText(ModelFailure))
          /\ messages' = Append(messages,
                 ToolMessage(CurrentCalls[1].id, ErrorText(ModelFailure),
                             CurrentCalls[1].name))
          /\ failed' = failed \cup {"compress"}
    /\ supPc' = "loop"
    /\ UNCHANGED <<graphVars, program, evalVars, pc, stageVars, iterations, shouldStop, toolPromises,
                   reportVars, clock>>

\* ---- the lean research agent ---------------------------------------------
LeanToolResult(call) ==
    IF call.name = "tavily_search" THEN Str("search result", 0)
    ELSE IF call.name = "think_tool" THEN Str("Reflection recorded", 0)
    ELSE Str("Error executing tool: ", 0) \o Str("tool is undefined", 0)

LeanToolMessages(calls) ==
    [i \in 1..Len(calls) |->
        ToolMessage(calls[i].id, LeanToolResult(calls[i]), calls[i].name)]

\* one pass of run's while loop up to the compression call
LeanCycle ==
    /\ program = "lean"
    /\ pc = "run"
    /\ agents[1].pc = "loop"
    /\ ConductResearchWhile(agents[1])
    /\ \/ /\ pc' = "rejected"                         \* the model call throws
          /\ failed' = failed \cup {"subAgent"}
          /\ UNCHANGED agents
       \/ /\ agents' = [agents EXCEPT
                          ![1].messages = Append(@, AIMessage(Str("answer", 0), <<>>)),
                          ![1].pc = "compress"]
          /\ UNCHANGED <<pc, failed>>
       \/ \E calls \in SubAgentBatches(0, agents[1].iterations, TRUE) :
            /\ agents' = [agents EXCEPT
                            ![1].messages = Append(@, AIMessage(EmptyStr, calls))
                                              \o LeanToolMessages(calls),
                            ![1].iterations = @ + 1]
            /\ UNCHANGED <<pc, failed>>
    /\ UNCHANGED <<graphVars, program, evalVars, stageVars, loopVars, supPc, reportVars, clock>>

\* the else branch of run: the compression call, then break
LeanCompress ==
    /\ program = "lean"
    /\ pc = "run"
    /\ agents[1].pc = "compress"
    /\ \/ /\ agents' = [agents EXCEPT ![1].compressCalls = @ + 1, ![1].pc = "returned"]
          /\ pc' = "exit"
          /\ UNCHANGED failed
       \/ /\ agents' = [agents EXCEPT ![1].compressCalls = @ + 1, ![1].pc = "thrown"]
          /\ pc' = "rejected"
          /\ failed' = failed \cup {"compress"}
    /\ UNCHANGED <<graphVars, program, evalVars, stageVars, loopVars, supPc, reportVars, clock>>

\* the loop condition fails: the warning is printed and run returns
LeanLoopEnd ==
    /\ program = "lean"
    /\ pc = "run"
    /\ agents[1].pc = "loop"
    /\ ~ConductResearchWhile(agents[1])
    /\ agents' = [agents EXCEPT ![1].pc = "returned"]
    /\ pc' = "exit"
    /\ UNCHANGED <<graphVars, program, evalVars, stageVars, loopVars, supPc, reportVars, clock, failed>>

\* ---- the graph research agents: shared parts -----------------------------
mainVars == <<stageVars, loopVars, supPc, agents, reportVars, clock>>

\* the tool-calling cycles recorded in researcher_messages
GraphCycles(log) ==
    Cardinality({p \in 1..Len(log) : log[p].type = "ai" /\ log[p].tool_calls # <<>>})

\* What the agent's model may answer: a final answer, or, while fewer than
\* MaxCycles cycles were made, tool calls (any batch of at most MaxSubBatch
\* calls in the first cycle, one search afterwards).
GraphResponses(log) ==
    {AIMessage(Str("answer", 0), <<>>)}
    \cup (IF GraphCycles(log) < MaxCycles
          THEN {AIMessage(EmptyStr, calls) :
                  calls \in SubAgentBatches(0, GraphCycles(log), TRUE)}
          ELSE {})

\* What the tools of one batch may do: a registered tool returns or, in the
\* first cycle, throws (tool.invoke rejects its input or the search fails);
\* toolsByName[call.name] of an unregistered name is undefined, and calling
\* its invoke throws.
ToolOutcomes(calls, cycle) ==
    {o \in [1..Len(calls) -> {"returns", "throws"}] :
        \A i \in 1..Len(calls) :
            /\ calls[i].name \notin subAgentToolNames => o[i] = "throws"
            /\ (calls[i].name \in subAgentToolNames /\ cycle > 1) => o[i] = "returns"}

ToolError(call) ==
    IF call.name \in subAgentToolNames THEN Str("tool failure", 0)
    ELSE Str("tool is undefined", 0)

\* new ToolMessage({ name: call.name, tool_call_id: call.id, content })
ToolOutput(call, content) == ToolMessage(call.id, content, call.name)

LastCalls == researcher_messages[Len(researcher_messages)].tool_calls

\* an error leaves the node: the graph run rejects with it
GraphThrows(err) ==
    /\ node' = "thrown"
    /\ thrown' = err
    /\ pc' = "rejected"

\* goto: (hasToolCalls && !stop) ? 'tool_node' : 'compress_research'
Goto(result, stop) ==
    IF result.tool_calls # <<>> /\ ~stop THEN "tool_node" ELSE "compress_research"

InitGraph(name) ==
    /\ program = name
    /\ pc = "run"
    /\ clarifyMessages = <<>>
    /\ messages = <<>>
    /\ supPc = "idle"
    /\ agents = [i \in 1..Slots |-> Idle]
    /\ InitCommon
    /\ node = "llm_call"
    /\ researcher_messages = <<HumanMessage(Str("request", 0))>>
    /\ tool_call_iterations = 0
    /\ attempt = 0
    /\ invocations = 0
    /\ thrown = EmptyStr
    /\ contextMessages = <<>>
    /\ compressInput = <<>>
    /\ raw_notes = <<>>
    /\ waited = <<>>

retryVars == <<attempt, invocations, waited, contextMessages, compressInput>>

\* ---- 2_research_agent.js: the retrying graph agent ----------------------
InitResearchAgent == InitGraph("research_agent")

AttemptError(i) == Str("model failure", i + 1)

RECURSIVE Pow2(_)
Pow2(n) == IF n = 0 THEN 1 ELSE 2 * Pow2(n - 1)

DelayLinear(i) == (i + 1) * 1000

\* const delay = Math.pow(2, i) * 1000
Delay(i) == Pow2(i) * 1000

FirstAttempt(i) == i = 0

\* if (i === retries - 1) throw err
LastAttempt(i) == i = retries - 1

\* the delays slept so far by the call that the pass belongs to
Slept == IF attempt = 0 THEN <<>> ELSE waited

\* one pass of invokeWithRetry's for loop in which model.invoke throws
AttemptThrows(site) ==
    /\ attempt < retries
    /\ invocations' = (IF attempt = 0 THEN 0 ELSE invocations) + 1
    /\ IF LastAttempt(attempt)
       THEN /\ GraphThrows(AttemptError(attempt))
            /\ failed' = failed \cup {site}
            /\ waited' = Slept
            /\ UNCHANGED attempt
       ELSE /\ attempt' = attempt + 1
            /\ waited' = Append(Slept, Delay(attempt))
            /\ UNCHANGED <<node, thrown, pc, failed>>
    /\ UNCHANGED <<researcher_messages, tool_call_iterations>>

\* one pass of invokeWithRetry's for loop in which model.invoke returns
AttemptReturns ==
    /\ attempt < retries
    /\ invocations' = (IF attempt = 0 THEN 0 ELSE invocations) + 1
    /\ attempt' = 0
    /\ waited' = Slept
    /\ UNCHANGED <<thrown, failed>>

ContinuityNote ==
    AIMessage(Str("I have performed several searches and refined my plan.", 0), <<>>)

LastTurns(log, n) == SubSeq(log, Len(log) - n + 1, Len(log))

ContextMessagesLastFive(allMessages) ==
    IF Len(allMessages) > 6
    THEN <<allMessages[1], ContinuityNote>> \o LastTurns(allMessages, 5)
    ELSE allMessages

\* allMessages.length > 6 ? [allMessages[0], note, ...allMessages.slice(-4)] : allMessages
ContextMessages(allMessages) ==
    IF Len(allMessages) > 6
    THEN <<allMessages[1], ContinuityNote>> \o LastTurns(allMessages, 4)
    ELSE allMessages

\* What the model of 2_research_agent.js may answer: as in the other graphs,
\* and in the second cycle also a response that carries two tool calls.
ResearchAgentResponses(log) ==
    GraphResponses(log)
    \cup (IF GraphCycles(log) = 1
          THEN {AIMessage(EmptyStr, SubAgentCalls(<<"tavily_search", "think_tool">>, 0, 2))}
          ELSE {})

\* llm_call: one attempt of invokeWithRetry and, once it returns, the Command
ResearchAgent_llm_call ==
    /\ program = "research_agent"
    /\ node = "llm_call"
    /\ contextMessages' = ContextMessages(researcher_messages)
    /\ \/ AttemptThrows("llm_call")
       \/ \E result \in ResearchAgentResponses(researcher_messages) :
            /\ AttemptReturns
            /\ researcher_messages' = Append(researcher_messages, result)
            /\ node' = Goto(result, FALSE)
            /\ UNCHANGED <<pc, tool_call_iterations>>
    /\ UNCHANGED <<program, evalVars, mainVars, compressInput, raw_notes>>

\* content.length: the characters a token stands for
CharLen(tok) ==
    IF tok[1] = "cut" THEN tok[2]
    ELSE IF tok[1] = "coffee_shops_sf.md" THEN 1200
    ELSE IF tok[1] = "\n\n[Truncated...]" THEN 16
    ELSE IF tok[1] = "Plan updated." THEN 13
    ELSE IF tok[1] = "\n\n" THEN 2
    ELSE IF tok[1] = "Error: " THEN 7
    ELSE 12

RECURSIVE Length(_)
Length(text) == IF text = <<>> THEN 0 ELSE CharLen(text[1]) + Length(Tail(text))

\* content.substring(0, n): the last token kept may be cut
RECURSIVE Substring(_, _)
Substring(text, n) ==
    IF text = <<>> \/ n = 0 THEN <<>>
    ELSE IF CharLen(text[1]) <= n
    THEN <<text[1]>> \o Substring(Tail(text), n - CharLen(text[1]))
    ELSE << <<"cut", n>> >>

TruncatedMark == <<"\n\n[Truncated...]", 0>>

\* truncateContent(content, maxChars)
truncateContent(content, maxChars) ==
    IF Length(content) <= maxChars THEN content
    ELSE Substring(content, maxChars) \o <<TruncatedMark>>

\* fs.readFileSync(filePath, 'utf8'): the local file, longer than 800 characters
rawContent == Str("coffee_shops_sf.md", 0)

\* what tavily_search and think_tool of 2_research_agent.js return
ResearchAgentToolResult(call) ==
    IF call.name = "tavily_search" THEN truncateContent(rawContent, 800)
    ELSE Str("Plan updated.", 0)

\* tool_node: every call is answered, a throw becomes the content of its turn
ResearchAgent_tool_node ==
    /\ program = "research_agent"
    /\ node = "tool_node"
    /\ \E o \in ToolOutcomes(LastCalls, GraphCycles(researcher_messages)) :
         researcher_messages' = researcher_messages \o
            [i \in 1..Len(LastCalls) |->
                ToolOutput(LastCalls[i],
                           IF o[i] = "returns" THEN ResearchAgentToolResult(LastCalls[i])
                           ELSE ErrorText(ToolError(LastCalls[i])))]
    /\ node' = "llm_call"
    /\ UNCHANGED <<program, evalVars, pc, mainVars, failed, tool_call_iterations, thrown,
                   retryVars, raw_notes>>

research_topic == Str("topic", 0)

\* researcher_messages.filter(m => m instanceof ToolMessage).map(m => m.content).join("\n\n")
ToolResults(log) ==
    LET kept == SelectSeq(log, LAMBDA m : m.type = "tool")
    IN Join([k \in 1..Len(kept) |-> kept[k].content], Sep)

\* the messages compress_research sends to compressModel
CompressMessages(log) ==
    <<SystemMessage(Str("compress_research_system_prompt", 0)),
      HumanMessage(Str("Topic: ", 0) \o research_topic \o Str("Findings:", 0)
                     \o truncateContent(ToolResults(log), 3000))>>

RawNotesAsSent(log) == truncateContent(ToolResults(log), 3000)

\* raw_notes: [toolResults]
RawNotes(log) == ToolResults(log)

\* compress_research: one attempt of invokeWithRetry and, once it returns, END
ResearchAgent_compress_research ==
    /\ program = "research_agent"
    /\ node = "compress_research"
    /\ compressInput' = CompressMessages(researcher_messages)
    /\ \/ /\ AttemptThrows("compress")
          /\ UNCHANGED raw_notes
       \/ /\ AttemptReturns
          /\ node' = "END"
          /\ pc' = "exit"
          /\ raw_notes' = raw_notes \o <<RawNotes(researcher_messages)>>
          /\ UNCHANGED <<researcher_messages, tool_call_iterations>>
    /\ UNCHANGED <<program, evalVars, mainVars, contextMessages>>

\* ---- graph agents that call the model directly ---------------------------
\* await model.invoke([...]) throws: nothing in the node catches it
DirectInvokeThrows(site) ==
    /\ GraphThrows(ModelFailure)
    /\ failed' = failed \cup {site}
    /\ UNCHANGED <<researcher_messages, tool_call_iterations>>

\* await Promise.all(calls.map(async call => toolsByName[call.name].invoke(...)))
\* without a catch: the first rejection rejects the node, else all are answered
UncaughtToolNode ==
    \E o \in ToolOutcomes(LastCalls, GraphCycles(researcher_messages)) :
        IF \E i \in 1..Len(LastCalls) : o[i] = "throws"
        THEN /\ \E i \in 1..Len(LastCalls) :
                  o[i] = "throws" /\ GraphThrows(ToolError(LastCalls[i]))
             /\ UNCHANGED researcher_messages
        ELSE /\ researcher_messages' = researcher_messages \o
                  [i \in 1..Len(LastCalls) |->
                      ToolOutput(LastCalls[i], SubAgentToolResult(LastCalls[i]))]
             /\ node' = "llm_call"
             /\ UNCHANGED <<pc, thrown>>

\* filterMessages(state.researcher_messages, { includeTypes: ['tool', 'ai'] })
\*     .map((m) => String(m.content))
NoteContents(log) ==
    LET kept == SelectSeq(log, LAMBDA m : m.type \in {"tool", "ai"})
    IN [k \in 1..Len(kept) |-> kept[k].content]

NextNoteSep == <<"\n\n--- NEXT NOTE ---\n\n", 0>>
LineSep == <<"\n", 0>>

\* compress_research: the compression call, then END with the notes joined by sep
DirectCompress(sep) ==
    /\ \/ /\ DirectInvokeThrows("compress")
          /\ UNCHANGED raw_notes
       \/ /\ node' = "END"
          /\ pc' = "exit"
          /\ raw_notes' = raw_notes \o <<Join(NoteContents(researcher_messages), sep)>>
          /\ UNCHANGED <<researcher_messages, tool_call_iterations, thrown, failed>>
    /\ UNCHANGED <<program, evalVars, mainVars, retryVars>>

\* ---- src/unnamed/part_003: the budgeted graph agent ----------------------
InitPart003 == InitGraph("part_003")

\* const tooManyIterations = state.tool_call_iterations >= 3
tooManyIterations(used) == used >= 3

Part003_llm_call ==
    /\ program = "part_003"
    /\ node = "llm_call"
    /\ \/ DirectInvokeThrows("llm_call")
       \/ \E result \in GraphResponses(researcher_messages) :
            /\ researcher_messages' = Append(researcher_messages, result)
            /\ tool_call_iterations' =
                  IF result.tool_calls # <<>> THEN tool_call_iterations + 1
                  ELSE tool_call_iterations
            /\ node' = Goto(result, tooManyIterations(tool_call_iterations))
            /\ UNCHANGED <<pc, thrown, failed>>
    /\ UNCHANGED <<program, evalVars, mainVars, retryVars, raw_notes>>

Part003_tool_node ==
    /\ program = "part_003"
    /\ node = "tool_node"
    /\ UncaughtToolNode
    /\ UNCHANGED <<program, evalVars, mainVars, failed, tool_call_iterations, retryVars,
                   raw_notes>>

Part003_compress_research ==
    /\ program = "part_003"
    /\ node = "compress_research"
    /\ DirectCompress(NextNoteSep)

\* ---- src/unnamed/part_004: the graph agent without a budget -------------
InitPart004 == InitGraph("part_004")

Part004_llm_call ==
    /\ program = "part_004"
    /\ node = "llm_call"
    /\ \/ DirectInvokeThrows("llm_call")
       \/ \E result \in GraphResponses(researcher_messages) :
            /\ researcher_messages' = Append(researcher_messages, result)
            /\ node' = Goto(result, FALSE)
            /\ UNCHANGED <<pc, thrown, failed, tool_call_iterations>>
    /\ UNCHANGED <<program, evalVars, mainVars, retryVars, raw_notes>>

Part004_tool_node ==
    /\ program = "part_004"
    /\ node = "tool_node"
    /\ UncaughtToolNode
    /\ UNCHANGED <<program, evalVars, mainVars, failed, tool_call_iterations, retryVars,
                   raw_notes>>

Part004_compress_research ==
    /\ program = "part_004"
    /\ node = "compress_research"
    /\ DirectCompress(NextNoteSep)

\* ---- src/unnamed/part_001: the graph agent with conditional edges -------
InitPart001 == InitGraph("part_001")

\* shouldContinue, the conditional edge out of llm_call
shouldContinue(log) ==
    IF log[Len(log)].tool_calls # <<>> THEN "tool_node" ELSE "compress_research"

\* llmCall, then the edge chosen by shouldContinue
Part001_llmCall ==
    /\ program = "part_001"
    /\ node = "llm_call"
    /\ \/ DirectInvokeThrows("llm_call")
       \/ \E result \in GraphResponses(researcher_messages) :
            /\ researcher_messages' = Append(researcher_messages, result)
            /\ node' = shouldContinue(Append(researcher_messages, result))
            /\ UNCHANGED <<pc, thrown, failed, tool_call_iterations>>
    /\ UNCHANGED <<program, evalVars, mainVars, retryVars, raw_notes>>

\* toolNode: the calls run one after the other; a name without a tool gives an
\* error observation, a throw of tool.invoke leaves the node
Part001_toolNode ==
    /\ program = "part_001"
    /\ node = "tool_node"
    /\ \E o \in [1..Len(LastCalls) -> {"returns", "throws"}] :
         /\ \A i \in 1..Len(LastCalls) :
               (LastCalls[i].name \notin subAgentToolNames
                  \/ GraphCycles(researcher_messages) > 1) => o[i] = "returns"
         /\ IF \E i \in 1..Len(LastCalls) : o[i] = "throws"
            THEN /\ LET first == CHOOSE i \in 1..Len(LastCalls) :
                                   /\ o[i] = "throws"
                                   /\ \A j \in 1..(i - 1) : o[j] = "returns"
                    IN GraphThrows(ToolError(LastCalls[first]))
                 /\ UNCHANGED researcher_messages
            ELSE /\ researcher_messages' = researcher_messages \o
                      [i \in 1..Len(LastCalls) |->
                          ToolOutput(LastCalls[i],
                              IF LastCalls[i].name \in subAgentToolNames
                              THEN SubAgentToolResult(LastCalls[i])
                              ELSE Str("Error: Tool not found", 0))]
                 /\ node' = "llm_call"
                 /\ UNCHANGED <<pc, thrown>>
    /\ UNCHANGED <<program, evalVars, mainVars, failed, tool_call_iterations, retryVars,
                   raw_notes>>

Part001_compressResearch ==
    /\ program = "part_001"
    /\ node = "compress_research"
    /\ DirectCompress(LineSep)

\* ---- src/src/1_scoping_lean.js: the lean scoping loop --------------------
InitScopingLean ==
    /\ program = "scoping_lean"
    /\ pc = "clarify"
    /\ clarifyMessages = <<HumanMessage(Str("request", 0))>>
    /\ messages = <<>>
    /\ supPc = "idle"
    /\ agents = [i \in 1..Slots |-> Idle]
    /\ InitCommon
    /\ InitNoGraph

\* if (response.verification): the empty string is falsy
Truthy(text) == text # EmptyStr

\* one pass of run's while (true) up to rl.question, the brief call or the
\* end of the loop body
ScopingClarify ==
    /\ program = "scoping_lean"
    /\ pc = "clarify"
    /\ \/ \E r \in ClarifyResponses(clarifyMessages) :
            /\ response' = <<r>>
            /\ IF NeedClarification(r, clarifyMessages)
               THEN pc' = "askUser" /\ pendingQuestion' = r.question
               ELSE IF Truthy(r.verification)
               THEN pc' = "brief" /\ UNCHANGED pendingQuestion
               ELSE pc' = "clarify" /\ UNCHANGED pendingQuestion
            /\ UNCHANGED failed
       \/ /\ pc' = "rejected"                          \* the model call throws
          /\ failed' = failed \cup {"verifyRequest"}
          /\ UNCHANGED <<pendingQuestion, response>>
    /\ UNCHANGED <<graphVars, program, evalVars, clarifyMessages, researchBrief, loopVars, supPc,
                   agents, reportVars, clock>>

\* rl.question answered: the two pushes, then continue
ScopingAnswer ==
    /\ program = "scoping_lean"
    /\ pc = "askUser"
    /\ clarifyMessages' = clarifyMessages
            \o Clarification(pendingQuestion, Str("answer", Rounds(clarifyMessages) + 1))
    /\ pendingQuestion' = EmptyStr
    /\ pc' = "clarify"
    /\ UNCHANGED <<graphVars, program, evalVars, response, researchBrief, loopVars, supPc,
                   agents, reportVars, clock, failed>>

\* the brief call of run, then break
ScopingBrief ==
    /\ program = "scoping_lean"
    /\ pc = "brief"
    /\ \/ /\ researchBrief' = Str("brief", 0)
          /\ pc' = "exit"
          /\ UNCHANGED failed
       \/ /\ pc' = "rejected"                          \* the model call throws
          /\ failed' = failed \cup {"createBrief"}
          /\ UNCHANGED researchBrief
    /\ UNCHANGED <<graphVars, program, evalVars, clarifyMessages, pendingQuestion, response,
                   loopVars, supPc, agents, reportVars, clock>>

\* ---- specification -------------------------------------------------------
\* ---- src/unnamed/part_002: the scoping graph and its main ----------------
\* what neither node of the scoping graph touches
scopingFrame ==
    <<program, evalVars, pendingQuestion, iterations, researchFindings, shouldStop, toolPromises,
      supPc, agents, reportVars, clock, researcher_messages, tool_call_iterations,
      retryVars, raw_notes>>

\* const inputs = [...]: the texts main sends, one per invoke
inputs == <<Str("request", 0), Str("answer", 1)>>

HumanTurns(log) == Cardinality({p \in 1..Len(log) : log[p].type = "human"})

\* research_brief: Annotation() is undefined until a node writes it
Unset == <<>>
SetTo(text) == <<text>>

\* the first graph.invoke of main on the thread 'coffee-research-final'
InitScopingGraph ==
    /\ program = "scoping_graph"
    /\ pc = "run"
    /\ clarifyMessages = <<HumanMessage(inputs[1])>>
    /\ messages = <<>>
    /\ supPc = "idle"
    /\ agents = [i \in 1..Slots |-> Idle]
    /\ InitCommon
    /\ researcher_messages = <<>>
    /\ tool_call_iterations = 0
    /\ attempt = 0
    /\ invocations = 0
    /\ thrown = EmptyStr
    /\ contextMessages = <<>>
    /\ compressInput = <<>>
    /\ raw_notes = <<>>
    /\ waited = <<>>
    /\ node = "clarify_with_user"

\* ClarifyWithUserSchema: a boolean and two strings, either of them maybe empty
ScopingGraphResponses(log) ==
    [need_clarification : BOOLEAN,
     question : {EmptyStr, Str("question", HumanTurns(log))},
     verification : {EmptyStr, Str("verification", 0)}]

ClarifyGotoAlwaysBrief(r) == "write_research_brief"

\* goto: END when response.need_clarification, else "write_research_brief"
ClarifyGoto(r) == IF r.need_clarification THEN "END" ELSE "write_research_brief"

\* update: { messages: [new AIMessage(response.question | response.verification)] }
ClarifyUpdate(r) ==
    IF r.need_clarification THEN AIMessage(r.question, <<>>)
    ELSE AIMessage(r.verification, <<>>)

ScopingGraph_clarifyWithUser ==
    /\ program = "scoping_graph"
    /\ node = "clarify_with_user"
    /\ \/ /\ GraphThrows(ModelFailure)                    \* the model call throws
          /\ failed' = failed \cup {"clarify_with_user"}
          /\ UNCHANGED <<clarifyMessages, response>>
       \/ \E r \in ScopingGraphResponses(clarifyMessages) :
            /\ response' = <<r>>
            /\ clarifyMessages' = Append(clarifyMessages, ClarifyUpdate(r))
            /\ node' = ClarifyGoto(r)
            /\ UNCHANGED <<pc, thrown, failed>>
    /\ UNCHANGED <<scopingFrame, researchBrief, messages>>

ScopingGraph_writeResearchBrief ==
    /\ program = "scoping_graph"
    /\ node = "write_research_brief"
    /\ \/ /\ GraphThrows(ModelFailure)                    \* the model call throws
          /\ failed' = failed \cup {"write_research_brief"}
          /\ UNCHANGED <<researchBrief, messages>>
       \/ \E brief \in {Str("brief", 0), EmptyStr} :
            /\ researchBrief' = SetTo(brief)
            /\ messages' = <<HumanMessage(brief)>>
            /\ node' = "END"
            /\ UNCHANGED <<pc, thrown, failed>>
    /\ UNCHANGED <<scopingFrame, clarifyMessages, response>>

\* main after graph.invoke has returned: break on a truthy research_brief,
\* else the next input is sent on the same thread
ScopingGraph_main ==
    /\ program = "scoping_graph"
    /\ pc = "run"
    /\ node = "END"
    /\ IF researchBrief # Unset /\ Truthy(researchBrief[1])
       THEN pc' = "exit" /\ UNCHANGED <<clarifyMessages, response, node>>
       ELSE IF HumanTurns(clarifyMessages) < Len(inputs)
       THEN /\ clarifyMessages' = Append(clarifyMessages,
                    HumanMessage(inputs[HumanTurns(clarifyMessages) + 1]))
            /\ response' = NoResponse
            /\ node' = "clarify_with_user"
            /\ UNCHANGED pc
       ELSE pc' = "exit" /\ UNCHANGED <<clarifyMessages, response, node>>
    /\ UNCHANGED <<scopingFrame, researchBrief, messages, thrown, failed>>

\* ---- the evaluators ------------------------------------------------------
\* neither the agents nor main run
InitIdle ==
    /\ clarifyMessages = <<>>
    /\ messages = <<>>
    /\ supPc = "idle"
    /\ agents = [i \in 1..Slots |-> Idle]
    /\ InitCommon
    /\ InitNoGraph

\* what an evaluator call leaves alone
evalFrame == <<program, mainVars, graphVars, failed>>

\* JavaScript values that are compared with ===
Undefined == [t |-> "undefined", v |-> FALSE]
Boolean(b) == [t |-> "boolean", v |-> b]

\* a message object that has no tool_calls property
MessageWithoutToolCalls == [type |-> "ai", content |-> Str("answer", 0)]

\* the last messages evaluateNextStep is applied to
LastMessages ==
    {MessageWithoutToolCalls,
     AIMessage(Str("answer", 0), <<>>),
     AIMessage(EmptyStr, SubAgentCalls(<<"tavily_search">>, 0, 1)),
     AIMessage(EmptyStr, SubAgentCalls(<<"tavily_search", "think_tool">>, 0, 1))}

\* lastMessage.tool_calls && lastMessage.tool_calls.length > 0
madeToolCall(lastMessage) ==
    IF "tool_calls" \notin DOMAIN lastMessage THEN Undefined
    ELSE Boolean(Len(lastMessage.tool_calls) > 0)

\* referenceOutputs.next_step === "continue"
expectsContinue(referenceOutputs) == Boolean(referenceOutputs.next_step = "continue")

evaluateNextStep(outputs, referenceOutputs) ==
    LET lastMessage == outputs.researcher_messages[Len(outputs.researcher_messages)]
    IN [key |-> "correct_next_step",
        score |-> madeToolCall(lastMessage) = expectsContinue(referenceOutputs)]

\* runEvaluation: agentOutput is in hand, evaluateNextStep is about to be called
InitResearchAgentEvaluation ==
    /\ program = "research_agent_evaluation"
    /\ pc = "evaluate"
    /\ InitIdle
    /\ \E lastMessage \in LastMessages,
          next_step \in {"continue", "stop"},
          earlier \in {<<>>, <<HumanMessage(Str("topic", 0))>>} :
         evalInput = [outputs |-> [researcher_messages |-> Append(earlier, lastMessage)],
                      referenceOutputs |-> [next_step |-> next_step]]
    /\ evalLocals = <<>>
    /\ evalResult = <<>>

EvaluateNextStep ==
    /\ program = "research_agent_evaluation"
    /\ pc = "evaluate"
    /\ evalResult' = <<evaluateNextStep(evalInput.outputs, evalInput.referenceOutputs)>>
    /\ pc' = "exit"
    /\ UNCHANGED <<evalFrame, evalInput, evalLocals>>

\* ---- src/src/1_scoping_evaluation.js: the brief evaluators ---------------
MaxMessages == 2      \* messages of the evaluated conversation

\* content.includes(word), on the lower-cased content
includes(content, word) == \E k \in 1..Len(content) : content[k][1] = word

\* the criteria one human message adds, in the order of the if statements
CriteriaOf(content) ==
    (IF includes(content, "quality") THEN <<"Quality requirements">> ELSE <<>>)
    \o (IF includes(content, "price") \/ includes(content, "cost")
           \/ includes(content, "budget")
        THEN <<"Price/cost requirements">> ELSE <<>>)
    \o (IF includes(content, "location") \/ includes(content, "san francisco")
        THEN <<"Location requirements">> ELSE <<>>)
    \o (IF includes(content, "coffee") THEN <<"Coffee-related requirements">> ELSE <<>>)
    \o (IF includes(content, "time") \/ includes(content, "date")
        THEN <<"Time-related requirements">> ELSE <<>>)

\* [...new Set(criteria)]: the first occurrence of each entry, in order
RECURSIVE Unique(_)
Unique(list) ==
    IF list = <<>> THEN <<>>
    ELSE LET front == Unique(SubSeq(list, 1, Len(list) - 1))
             last == list[Len(list)]
         IN IF \E k \in 1..Len(front) : front[k] = last THEN front
            ELSE Append(front, last)

RECURSIVE PushedCriteria(_)
PushedCriteria(log) ==
    IF log = <<>> THEN <<>>
    ELSE (IF log[1].type = "human" THEN CriteriaOf(log[1].content) ELSE <<>>)
         \o PushedCriteria(Tail(log))

extractCriteriaFromConversation(log) == Unique(PushedCriteria(log))

\* the messages a conversation under evaluation is made of
EvaluatedMessages ==
    {HumanMessage(Str("coffee", 0) \o Str("san francisco", 0)),
     HumanMessage(Str("coffee", 0) \o Str("quality", 0)),
     HumanMessage(Str("apartments", 0)),
     AIMessage(Str("quality", 0), <<>>)}

RECURSIVE Conversations(_)
Conversations(n) ==
    IF n = 0 THEN {<<>>}
    ELSE LET shorter == Conversations(n - 1)
         IN shorter \cup {Append(c, m) : c \in {d \in shorter : Len(d) = n - 1},
                                         m \in EvaluatedMessages}

\* a score: a quotient of two numbers, as totalScore / criteria.length
Ratio(n, d) == [num |-> n, den |-> d]

InitScopingEvaluation ==
    /\ program = "scoping_evaluation"
    /\ pc = "evaluateSuccessCriteria"
    /\ InitIdle
    /\ \E log \in Conversations(MaxMessages) \ {<<>>} :
         evalInput = [messages |-> log, research_brief |-> Str("brief", 0)]
    /\ evalLocals = <<>>
    /\ evalResult = <<>>

\* evaluateSuccessCriteria up to its first model call
EvaluateSuccessCriteria ==
    /\ program = "scoping_evaluation"
    /\ pc = "evaluateSuccessCriteria"
    /\ LET criteria == extractCriteriaFromConversation(evalInput.messages)
       IN IF criteria = <<>>
          THEN /\ evalResult' = <<[key |-> "success_criteria_score", score |-> Ratio(0, 1),
                                  reason |-> "No criteria found in conversation"]>>
               /\ evalLocals' = [criteria |-> criteria, totalScore |-> 0,
                                 evaluationDetails |-> <<>>, calls |-> 0]
               /\ pc' = "evaluateHallucination"
          ELSE /\ evalLocals' = [criteria |-> criteria, totalScore |-> 0,
                                 evaluationDetails |-> <<>>, calls |-> 0]
               /\ pc' = "criterion"
               /\ UNCHANGED evalResult
    /\ UNCHANGED <<evalFrame, evalInput>>

\* CriteriaEvaluationSchema: score is an integer from 0 to 1
Evaluated(criterion, score) ==
    [reasoning |-> "reasoning", score |-> score, criterion_evaluated |-> criterion]

FailedDetail(criterion) ==
    [reasoning |-> "Evaluation failed due to error", score |-> 0,
     criterion_evaluated |-> criterion]

CriterionFailedCounted(locals, criterion) ==
    [locals EXCEPT !.totalScore = @ + 1,
                   !.evaluationDetails = Append(@, FailedDetail(criterion)),
                   !.calls = @ + 1]

\* catch (error) { evaluationDetails.push({ ..., score: 0, ... }) }
CriterionFailed(locals, criterion) ==
    [locals EXCEPT !.evaluationDetails = Append(@, FailedDetail(criterion)),
                   !.calls = @ + 1]

\* totalScore += result.score; evaluationDetails.push(result)
CriterionEvaluated(locals, criterion, score) ==
    [locals EXCEPT !.totalScore = @ + score,
                   !.evaluationDetails = Append(@, Evaluated(criterion, score)),
                   !.calls = @ + 1]

\* one pass of for (const criterion of criteria)
EvaluateCriterion ==
    /\ program = "scoping_evaluation"
    /\ pc = "criterion"
    /\ Len(evalLocals.evaluationDetails) < Len(evalLocals.criteria)
    /\ LET criterion == evalLocals.criteria[Len(evalLocals.evaluationDetails) + 1]
       IN \/ /\ evalLocals' = CriterionFailed(evalLocals, criterion)
             /\ failed' = failed \cup {"criterion"}
          \/ \E score \in 0..1 :
               /\ evalLocals' = CriterionEvaluated(evalLocals, criterion, score)
               /\ UNCHANGED failed
    /\ UNCHANGED <<program, pc, mainVars, graphVars, evalInput, evalResult>>

\* the return of evaluateSuccessCriteria after its loop
EvaluateSuccessCriteriaReturn ==
    /\ program = "scoping_evaluation"
    /\ pc = "criterion"
    /\ Len(evalLocals.evaluationDetails) = Len(evalLocals.criteria)
    /\ evalResult' = <<[key |-> "success_criteria_score",
                        score |-> IF Len(evalLocals.criteria) > 0
                                  THEN Ratio(evalLocals.totalScore, Len(evalLocals.criteria))
                                  ELSE Ratio(0, 1),
                        details |-> evalLocals.evaluationDetails]>>
    /\ pc' = "evaluateHallucination"
    /\ UNCHANGED <<evalFrame, evalInput, evalLocals>>

EvaluateHallucination ==
    /\ program = "scoping_evaluation"
    /\ pc = "evaluateHallucination"
    /\ LET originalCriteria == extractCriteriaFromConversation(evalInput.messages)
       IN IF originalCriteria = <<>>
          THEN /\ evalResult' = Append(evalResult,
                     [key |-> "hallucination_score", score |-> Ratio(1, 1),
                      reason |-> "No original criteria to compare against"])
               /\ UNCHANGED <<evalLocals, failed>>
          ELSE /\ evalLocals' = [evalLocals EXCEPT !.calls = @ + 1]
               /\ \/ /\ evalResult' = Append(evalResult,
                           [key |-> "hallucination_score", score |-> Ratio(0, 1),
                            reason |-> "Error during hallucination evaluation"])
                     /\ failed' = failed \cup {"hallucination"}
                  \/ \E score \in 0..1 :
                       /\ evalResult' = Append(evalResult,
                             [key |-> "hallucination_score", score |-> Ratio(score, 1),
                              reason |-> "reasoning"])
                       /\ UNCHANGED failed
    /\ pc' = "exit"
    /\ UNCHANGED <<program, mainVars, graphVars, evalInput>>

\* no evaluator call is in progress
InitNoEvaluation ==
    /\ evalInput = <<>>
    /\ evalLocals = <<>>
    /\ evalResult = <<>>

\* ---- src/src/2_research_agent.js: invokeWithRetry as a function of retries -
MaxRetries == 2       \* the largest retries argument tried

\* the retries argument of a call: negative, zero and positive values
RetriesArguments == (0 - 1)..MaxRetries

InitInvokeWithRetry ==
    /\ program = "invokeWithRetry"
    /\ pc = "for"
    /\ InitIdle
    /\ \E n \in RetriesArguments : evalInput = [retries |-> n]
    /\ evalLocals = [i |-> 0, invocations |-> 0, waited |-> <<>>]
    /\ evalResult = <<>>

\* one pass of for (let i = 0; i < retries; i++)
InvokeWithRetry_attempt ==
    /\ program = "invokeWithRetry"
    /\ pc = "for"
    /\ evalLocals.i < evalInput.retries
    /\ \/ /\ evalResult' = <<[how |-> "returned", value |-> AIMessage(Str("answer", 0), <<>>)]>>
          /\ evalLocals' = [evalLocals EXCEPT !.invocations = @ + 1]
          /\ pc' = "exit"
       \/ /\ evalLocals.i = evalInput.retries - 1
          /\ evalResult' = <<[how |-> "thrown", value |-> AttemptError(evalLocals.i)]>>
          /\ evalLocals' = [evalLocals EXCEPT !.invocations = @ + 1]
          /\ pc' = "exit"
       \/ /\ evalLocals.i # evalInput.retries - 1
          /\ evalLocals' = [evalLocals EXCEPT !.invocations = @ + 1,
                                              !.waited = Append(@, Delay(evalLocals.i)),
                                              !.i = @ + 1]
          /\ UNCHANGED <<pc, evalResult>>
    /\ UNCHANGED <<program, mainVars, graphVars, failed, evalInput>>

\* the loop condition fails: the function body ends without a return
InvokeWithRetry_end ==
    /\ program = "invokeWithRetry"
    /\ pc = "for"
    /\ ~(evalLocals.i < evalInput.retries)
    /\ evalResult' = <<[how |-> "returned", value |-> Undefined]>>
    /\ pc' = "exit"
    /\ UNCHANGED <<program, mainVars, graphVars, failed, evalInput, evalLocals>>

Init ==
    \/ /\ InitNoEvaluation
       /\ \/ InitFull
          \/ InitSupervisor
          \/ InitManual
          \/ InitLean
          \/ InitResearchAgent
          \/ InitPart003
          \/ InitPart004
          \/ InitPart001
          \/ InitScopingLean
          \/ InitScopingGraph
    \/ InitResearchAgentEvaluation
    \/ InitScopingEvaluation
    \/ InitInvokeWithRetry

Next ==
    \/ VerifyRequestInvoke
    \/ AskUserAnswer
    \/ CreateBrief
    \/ SupervisorInvoke
    \/ \E i \in 1..Slots : SubAgentCycle(i)
    \/ \E i \in 1..Slots : SubAgentCompress(i)
    \/ \E i \in 1..Slots : ThinkToolSettle(i)
    \/ PromiseAll
    \/ LoopExhausted
    \/ RunResearchReturn
    \/ RunSupervisorReturn
    \/ GenerateReport
    \/ ManualSupervisorCycle
    \/ ManualSubAgentCycle
    \/ ManualSubAgentCompress
    \/ LeanCycle
    \/ LeanCompress
    \/ LeanLoopEnd
    \/ ResearchAgent_llm_call
    \/ ResearchAgent_tool_node
    \/ ResearchAgent_compress_research
    \/ Part003_llm_call
    \/ Part003_tool_node
    \/ Part003_compress_research
    \/ Part004_llm_call
    \/ Part004_tool_node
    \/ Part004_compress_research
    \/ Part001_llmCall
    \/ Part001_toolNode
    \/ Part001_compressResearch
    \/ ScopingClarify
    \/ ScopingAnswer
    \/ ScopingBrief
    \/ ScopingGraph_clarifyWithUser
    \/ ScopingGraph_writeResearchBrief
    \/ ScopingGraph_main
    \/ EvaluateNextStep
    \/ EvaluateSuccessCriteria
    \/ EvaluateCriterion
    \/ EvaluateSuccessCriteriaReturn
    \/ EvaluateHallucination
    \/ InvokeWithRetry_attempt
    \/ InvokeWithRetry_end

Spec == Init /\ [][Next]_vars

\* ---- properties ----------------------------------------------------------
Running(agent) == agent.pc \in {"loop", "compress"}

RECURSIVE AllCalls(_)
AllCalls(log) ==
    IF log = <<>> THEN <<>> ELSE log[1].tool_calls \o AllCalls(Tail(log))

ResultOf(log, id) ==
    log[CHOOSE p \in 1..Len(log) :
            log[p].type = "tool" /\ log[p].tool_call_id = id].content

Answered(log, id) ==
    \E p \in 1..Len(log) : log[p].type = "tool" /\ log[p].tool_call_id = id

\* the results of the answered ConductResearch calls, in the order of the calls
DelegationOrderFindings(log) ==
    LET delegations == SelectSeq(AllCalls(log),
                         LAMBDA c : c.name = "ConductResearch" /\ Answered(log, c.id))
    IN [k \in 1..Len(delegations) |-> ResultOf(log, delegations[k].id)]

\* every assistant turn with N tool calls is followed by exactly N tool turns,
\* the i-th carrying the id of the i-th call
WellAnswered(log) ==
    \A p \in 1..Len(log) :
        LET calls == log[p].tool_calls
        IN (log[p].type = "ai" /\ calls # <<>>) =>
            /\ p + Len(calls) <= Len(log)
            /\ \A i \in 1..Len(calls) :
                  /\ log[p + i].type = "tool"
                  /\ log[p + i].tool_call_id = calls[i].id
            /\ p + Len(calls) < Len(log) => log[p + Len(calls) + 1].type # "tool"

HasResearchComplete(turn) ==
    \E i \in 1..Len(turn.tool_calls) : turn.tool_calls[i].name = "ResearchComplete"

HasErrorText(text) == \E k \in 1..Len(text) : text[k][1] = "Error: "

IsReport(text) == text # <<>> /\ text[1][1] = "report"

\* C1 (as claimed): the aggregate returned by runResearch of the full agent
\* lists the findings in delegation order, whatever the completion order.
C1_DelegationOrder ==
    (program = "full" /\ supPc = "returned") =>
        allFindings = Join(DelegationOrderFindings(messages), Sep)

\* C2: the iteration counters of the supervisor loop and of every sub-agent
\* loop never decrease and never exceed their maximum, and a Deciding model
\* call (one that answers or one that throws) is only made while used < max.
C2_BudgetStep ==
    /\ iterations' >= iterations
    /\ iterations' <= maxResearchIterations
    /\ (\/ /\ Len(messages') > Len(messages)
           /\ messages'[Len(messages) + 1].type = "ai"
        \/ /\ "supervisor" \in failed'
           /\ "supervisor" \notin failed)
       => iterations < maxResearchIterations
    /\ \A i \in 1..Slots :
         /\ agents'[i].iterations <= maxIterations
         /\ (Running(agents[i]) /\ Running(agents'[i]))
               => agents'[i].iterations >= agents[i].iterations
         /\ (\/ /\ Running(agents[i])
                /\ Len(agents'[i].messages) > Len(agents[i].messages)
             \/ /\ agents[i].pc = "loop"
                /\ agents'[i].pc = "thrown"
                /\ agents'[i].compressCalls = agents[i].compressCalls)
            => agents[i].iterations < maxIterations

C2_BudgetMonotone == [][C2_BudgetStep]_vars

C2_Witness ==
    /\ program = "full"
    /\ supPc = "returned"
    /\ iterations = maxResearchIterations
    /\ ~shouldStop
    /\ messages[Len(messages)].type = "tool"

\* C3: at every loop head of runResearch and runSupervisor the log answers
\* each assistant turn of N tool calls by exactly N tool turns, in the order
\* of the calls, whatever the order in which the calls completed.
C3_ResultsInCallOrder ==
    (program \in {"full", "supervisor"} /\ supPc \in {"loop", "return", "returned"})
        => WellAnswered(messages)

C3_Witness ==
    /\ program = "full"
    /\ supPc = "loop"
    /\ researchFindings = <<Str("report", 2), Str("report", 1)>>
    /\ Len(messages) = 4
    /\ messages[3].content = Str("report", 1)

\* C4: outside the await of the batch no tool call of the batch is pending
\* and no delegated sub-agent is running.
C4_NoPartialBatch ==
    (program \in {"full", "supervisor"} /\ supPc # "awaitAll") =>
        /\ \A i \in 1..Slots : ~Running(agents[i])
        /\ \A i \in 1..Len(toolPromises) : toolPromises[i].state = "fulfilled"

C4_Witness ==
    /\ program = "full"
    /\ supPc = "loop"
    /\ iterations = 1
    /\ agents[1].pc = "returned"
    /\ agents[2].pc = "thrown"

\* C5: a batch with a ResearchComplete call is the last one: no model call
\* follows it, whatever the budget; once its await is over every call of the
\* batch has its tool turn, and the findings of its ConductResearch calls are
\* part of the aggregate.
C5_StopAfterBatch ==
    program \in {"full", "supervisor"} =>
      \A p \in 1..Len(messages) :
        (messages[p].type = "ai" /\ HasResearchComplete(messages[p])) =>
          LET calls == messages[p].tool_calls
          IN /\ \A q \in (p + 1)..Len(messages) : messages[q].type # "ai"
             /\ supPc \in {"awaitAll", "return", "returned"}
             /\ "supervisor" \notin failed
             /\ supPc # "awaitAll" =>
                  /\ Len(messages) = p + Len(calls)
                  /\ \A i \in 1..Len(calls) :
                        /\ messages[p + i].type = "tool"
                        /\ messages[p + i].tool_call_id = calls[i].id
             /\ supPc = "returned" =>
                  /\ program = "full" =>
                        /\ allFindings = Join(researchFindings, Sep)
                        /\ \A i \in 1..Len(calls) :
                              calls[i].name = "ConductResearch" =>
                                \E k \in 1..Len(researchFindings) :
                                    researchFindings[k] = messages[p + i].content
                  /\ program = "supervisor" =>
                        allFindings = Join(ConductResearchContents(messages), RuleSep)

C5_Witness ==
    /\ program = "full"
    /\ supPc = "returned"
    /\ iterations = 1
    /\ Len(messages) = 4
    /\ messages[2].tool_calls[1].name = "ResearchComplete"
    /\ messages[2].tool_calls[2].name = "ConductResearch"
    /\ allFindings = Str("report", 1)

\* C6: when a model call of a sub-agent throws, the supervisor is not
\* aborted: the delegation's promise is fulfilled by a tool turn carrying the
\* error text and the call's id, the other calls of the batch are untouched,
\* and the await of the batch ends at the loop, never in a rejection.
C6_FailureStep ==
    /\ \A i \in 1..Slots :
         (program \in {"full", "supervisor"} /\ Running(agents[i])
            /\ agents'[i].pc = "thrown") =>
           /\ pc' = pc
           /\ supPc' = "awaitAll"
           /\ toolPromises'[i] =
                Fulfilled(ToolMessage(CurrentCalls[i].id, ErrorText(ModelFailure),
                                      "ConductResearch"))
           /\ \A j \in 1..Slots \ {i} :
                /\ agents'[j] = agents[j]
                /\ j <= Len(toolPromises) => toolPromises'[j] = toolPromises[j]
    /\ (supPc = "awaitAll" /\ supPc' # "awaitAll") =>
           /\ pc' = pc
           /\ supPc' = AfterBatch(shouldStop)

C6_SubAgentFailureContained == [][C6_FailureStep]_vars

C6_Witness ==
    /\ program = "full"
    /\ pc = "runResearch"
    /\ supPc = "loop"
    /\ Len(messages) = 4
    /\ messages[3].content = ErrorText(ModelFailure)
    /\ messages[4].content = Str("report", 2)

\* C7 (as claimed): the aggregate holds the findings of done delegations
\* only, never the error text of a failed one.
C7_OnlyDoneFindings ==
    (program \in {"full", "manual"} /\ supPc = "returned") => ~HasErrorText(allFindings)

\* C8 (as claimed): generateReport is invoked exactly when some delegation
\* finished as done; otherwise main ends with "No findings gathered".
C8_ReportIffDone ==
    (program \in {"full", "manual"} /\ supPc = "returned") =>
        LET someDone == \E k \in 1..Len(researchFindings) : IsReport(researchFindings[k])
        IN /\ (reportCalls > 0) <=> someDone
           /\ ~someDone => pc = "exitNoFindings"

C10_CompressOnce ==
    \A i \in 1..Slots : agents[i].pc = "returned" => agents[i].compressCalls = 1

\* C11 (as claimed): the graph agent of 2_research_agent.js makes at most 5
\* tool-calling cycles: its budget counts every cycle and, once 5 are used,
\* the next step is compress_research whatever the model answers.
C11_BudgetForcesCompress ==
    program = "research_agent" => GraphCycles(researcher_messages) <= 5

\* C12 (as claimed): in the budgeted graph agent of part_003 every model
\* invocation, the compression call included, sees a log in which each
\* assistant turn of N tool calls is followed by its N tool turns.
C12_AnsweredBeforeInvoke ==
    (program = "part_003" /\ node \in {"llm_call", "compress_research"})
        => WellAnswered(researcher_messages)

IsErrorResult(text) ==
    text # <<>> /\ text[1][1] \in {"Error: ", "Error: Tool not found"}

\* every call of an unregistered tool has, at its place after the assistant
\* turn, a tool turn with its id and an error text
UnknownAnswered(log, registered) ==
    \A p \in 1..Len(log) :
        \A i \in 1..Len(log[p].tool_calls) :
            log[p].tool_calls[i].name \notin registered =>
                /\ p + i <= Len(log)
                /\ log[p + i].type = "tool"
                /\ log[p + i].tool_call_id = log[p].tool_calls[i].id
                /\ IsErrorResult(log[p + i].content)

LastAssistant(log) ==
    log[CHOOSE p \in 1..Len(log) :
            log[p].type = "ai" /\ \A q \in (p + 1)..Len(log) : log[q].type # "ai"]

\* C13: a call of an unregistered tool never aborts its loop.  In the
\* supervisor loops of the full agent and of the stand-alone supervisor and in
\* their sub-agent loops the call is answered by an error tool turn with the
\* call's id; the loop goes on to its next cycle unless the batch also asked
\* to stop or the budget is used up; every such cycle is counted by the
\* budget; and a loop is only ever aborted by a failed model call.
C13_UnknownToolContained ==
    program \in {"full", "supervisor"} =>
      /\ supPc \in {"loop", "return", "returned"} =>
            UnknownAnswered(messages, supervisorToolNames)
      /\ iterations = GraphCycles(messages)
      /\ iterations <= maxResearchIterations
      /\ (supPc \in {"return", "returned"}
            /\ \E i \in 1..Len(LastAssistant(messages).tool_calls) :
                  LastAssistant(messages).tool_calls[i].name \notin supervisorToolNames)
           => \/ HasResearchComplete(LastAssistant(messages))
              \/ iterations = maxResearchIterations
      /\ supPc = "thrown" => "supervisor" \in failed
      /\ pc = "rejected" => failed # {}
      /\ \A i \in 1..Slots :
           /\ Running(agents[i]) =>
                /\ UnknownAnswered(agents[i].messages, subAgentToolNames)
                /\ agents[i].iterations = GraphCycles(agents[i].messages)
                /\ agents[i].iterations <= maxIterations
           /\ agents[i].pc = "thrown" => failed \cap {"subAgent", "compress"} # {}

C13_Witness ==
    /\ program = "full"
    /\ supPc = "awaitAll"
    /\ iterations = 2
    /\ messages[2].tool_calls[1].name = UnknownTool
    /\ messages[3].content = Str("Error: Tool not found", 0)
    /\ agents[1].pc = "loop"
    /\ agents[1].iterations = 2
    /\ agents[1].messages[2].tool_calls[1].name = UnknownTool
    /\ agents[1].messages[3].content = ErrorText(Str("tool is undefined", 0))

\* C14 (as claimed): in every graph tool_node a throw of a tool call becomes
\* that call's tool turn: the graph run is only ever rejected by a model
\* failure, and whenever llm_call is next every tool call has its tool turn.
C14_ToolNodeNeverThrows ==
    program \in {"research_agent", "part_001", "part_003", "part_004"} =>
        /\ node = "thrown" => thrown[1][1] = "model failure"
        /\ node = "llm_call" => WellAnswered(researcher_messages)

\* C15: invokeWithRetry invokes the model once per pass and at most retries
\* (5) times; a pass whose invocation returns ends the call at once, and the
\* node goes on with that response; a failed pass that is not the last leaves
\* everything else as it was; the call throws only in its fifth pass, and
\* then the error of the fifth invocation.
C15_RetryStep ==
    (program = "research_agent" /\ node \in {"llm_call", "compress_research"}) =>
        /\ invocations' = (IF attempt = 0 THEN 1 ELSE invocations + 1)
        /\ invocations' = attempt + 1
        /\ invocations' <= retries
        /\ node' = "thrown" =>
              /\ invocations' = retries
              /\ thrown' = AttemptError(retries - 1)
        /\ node' = node =>
              /\ attempt' = attempt + 1
              /\ researcher_messages' = researcher_messages
        /\ node' \notin {node, "thrown"} =>
              /\ attempt' = 0
              /\ thrown' = EmptyStr
              /\ node = "llm_call" =>
                    /\ Len(researcher_messages') = Len(researcher_messages) + 1
                    /\ researcher_messages'[Len(researcher_messages')].type = "ai"
              /\ node = "compress_research" => node' = "END"

C15_RetryAtMostFive == [][C15_RetryStep]_vars

C15_Witness ==
    /\ program = "research_agent"
    /\ node = "thrown"
    /\ invocations = 5
    /\ thrown = Str("model failure", 5)
    /\ GraphCycles(researcher_messages) = 1

\* C16 (as claimed): a single failure of the Deciding model call of the full
\* agent's supervisor loop or of a sub-agent loop is retried: it ends neither
\* the loop nor the run.
C16_SingleFailureRetried ==
    program = "full" =>
        /\ "supervisor" \in failed => (supPc # "thrown" /\ pc # "rejected")
        /\ \A i \in 1..Slots :
              ~(agents[i].pc = "thrown" /\ agents[i].compressCalls = 0)

\* C17 (as claimed): at most maxConcurrentResearchers (3) sub-agents of one
\* supervisor are running at the same time.
C17_ConcurrencyCap ==
    program \in {"full", "supervisor"} =>
        Cardinality({i \in 1..Slots : Running(agents[i])}) <= maxConcurrentResearchers

\* every id of the log, of a call or of a tool turn, was issued to this owner
OwnTurns(log, owner) ==
    \A p \in 1..Len(log) :
        /\ \A i \in 1..Len(log[p].tool_calls) : log[p].tool_calls[i].id[1] = owner
        /\ log[p].type = "tool" => log[p].tool_call_id[1] = owner

IsPrefix(s, t) == Len(s) <= Len(t) /\ SubSeq(t, 1, Len(s)) = s

\* the ConductResearch call of the log that a tool turn answers
CallOf(log, id) ==
    LET calls == AllCalls(log)
    IN calls[CHOOSE k \in 1..Len(calls) : calls[k].id = id]

C18_Logs ==
    program \in {"full", "supervisor"} =>
      /\ OwnTurns(messages, 0)
      /\ \A p \in 1..Len(messages) :
           /\ messages[p].type = "human" => p = 1
           /\ (messages[p].type = "tool" /\ messages[p].name = "ConductResearch") =>
                messages[p].content \in
                    {Str("report", CallOf(messages, messages[p].tool_call_id).args[1][2]),
                     ErrorText(ModelFailure)}
      /\ \A i \in 1..Slots :
           Running(agents[i]) =>
             /\ agents[i].topic = CurrentCalls[i].args
             /\ agents[i].messages[1] = HumanMessage(agents[i].topic)
             /\ \A p \in 2..Len(agents[i].messages) :
                    agents[i].messages[p].type \in {"ai", "tool"}
             /\ OwnTurns(agents[i].messages, Owner(agents[i]))

C18_LogStep ==
    program \in {"full", "supervisor"} =>
      /\ \A i \in 1..Slots :
           (~Running(agents[i]) /\ Running(agents'[i])) =>
               agents'[i].messages = <<HumanMessage(CurrentCalls'[i].args)>>
      /\ (supPc = "awaitAll" /\ supPc' = "awaitAll") =>
           /\ messages' = messages
           /\ \A i \in 1..Slots :
                /\ agents'[i] # agents[i] =>
                     \A j \in 1..Slots \ {i} : agents'[j] = agents[j]
                /\ (Running(agents[i]) /\ Running(agents'[i])) =>
                     IsPrefix(agents[i].messages, agents'[i].messages)

\* C18: every delegation runs on a log of its own that starts as the topic
\* alone; while the batch is awaited a step of one sub-agent extends only that
\* sub-agent's log and leaves the supervisor's log and the other sub-agents
\* untouched; every id in a log was issued to the log's owner; and what a
\* delegation leaves in the supervisor's log is one tool turn whose content is
\* its compressed report (or the error text when it failed).
C18_LogIsolation == []C18_Logs /\ [][C18_LogStep]_vars

C18_Witness ==
    /\ program = "full"
    /\ supPc = "awaitAll"
    /\ Running(agents[1])
    /\ Running(agents[2])
    /\ Len(agents[1].messages) = 5
    /\ Len(agents[2].messages) = 3
    /\ toolPromises[1].state = "pending"

Alternates(log) ==
    /\ Len(log) % 2 = 1
    /\ \A p \in 1..Len(log) : log[p].type = (IF p % 2 = 1 THEN "human" ELSE "ai")

C19_Stage ==
    program \in {"full", "manual"} =>
      /\ pc = "verifyRequest" =>
           /\ Alternates(clarifyMessages)
           /\ response # NoResponse =>
                /\ response[1].need_clarification
                /\ Len(clarifyMessages) >= 3
                /\ clarifyMessages[Len(clarifyMessages) - 1]
                      = AIMessage(response[1].question, <<>>)
      /\ pc = "askUser" => response[1].need_clarification
      /\ pc = "createBrief" =>
           /\ response # NoResponse
           /\ ~response[1].need_clarification
           /\ Alternates(clarifyMessages)

C19_StageStep ==
    (program \in {"full", "manual"} /\ pc = "askUser") =>
        /\ pc' = "verifyRequest"
        /\ Len(clarifyMessages') = Len(clarifyMessages) + 2
        /\ IsPrefix(clarifyMessages, clarifyMessages')
        /\ clarifyMessages'[Len(clarifyMessages) + 1] = AIMessage(response[1].question, <<>>)
        /\ clarifyMessages'[Len(clarifyMessages) + 2].type = "human"

\* C19: verifyRequest returns, and main goes on to the brief, only after an
\* answer with need_clarification = false; after an answer with
\* need_clarification = true it appends the question as an assistant turn and
\* the user's answer as a user turn and invokes the model again; at every
\* invocation the log alternates user and assistant turns and both starts and
\* ends with a user turn.
C19_ClarifyUntilVerified == []C19_Stage /\ [][C19_StageStep]_vars

C19_Witness ==
    /\ program = "full"
    /\ pc = "createBrief"
    /\ Len(clarifyMessages) = 3
    /\ clarifyMessages[2] = AIMessage(Str("question", 1), <<>>)

\* C20 (as claimed): after an answer with need_clarification = false neither
\* the clarification model is invoked again nor the user prompted, whatever
\* the question and verification fields hold, in verifyRequest and in run of
\* 1_scoping_lean.js.
C20_AdvanceAtOnce ==
    /\ (program \in {"full", "manual"} /\ pc \in {"verifyRequest", "askUser"}
          /\ response # NoResponse) => response[1].need_clarification
    /\ (program = "scoping_lean" /\ pc \in {"clarify", "askUser"}
          /\ response # NoResponse) => response[1].need_clarification

\* C21 (as claimed): when the clarification model answers
\* need_clarification = false, verifyRequest appends the verification
\* message as an assistant turn, so the log handed to createBrief ends with
\* that verification turn.
C21_VerificationAppended ==
    (program \in {"full", "manual"} /\ pc = "createBrief" /\ response # NoResponse)
        => /\ clarifyMessages # <<>>
           /\ clarifyMessages[Len(clarifyMessages)]
                 = AIMessage(response[1].verification, <<>>)

InMain == program \in {"full", "manual"}

C22_Order ==
    InMain =>
        /\ pc \in {"verifyRequest", "askUser", "createBrief"}
              => /\ researchBrief = EmptyStr
                 /\ supPc = "idle"
                 /\ messages = <<>>
        /\ supPc # "idle"
              => /\ researchBrief # EmptyStr
                 /\ messages # <<>>
                 /\ messages[1] = HumanMessage(researchBrief)
        /\ reportCalls <= 1
        /\ reportCalls = 0 => reportInput = <<>>
        /\ reportCalls = 1
              => /\ supPc = "returned"
                 /\ Len(reportInput) = 1
                 /\ reportInput[1].researchBrief = messages[1].content
                 /\ reportInput[1].findings = allFindings

C22_OrderStep ==
    InMain =>
        /\ researchBrief' # researchBrief
              => pc = "createBrief" /\ researchBrief = EmptyStr /\ pc' = "runResearch"
        /\ (pc' = "createBrief" /\ pc # "createBrief") => pc = "verifyRequest"
        /\ (pc' \in {"verifyRequest", "askUser"}) => pc \in {"verifyRequest", "askUser"}
        /\ supPc # "idle" => supPc' # "idle"
        /\ reportCalls' # reportCalls
              => pc = "runResearch" /\ supPc' = "returned" /\ pc' = "generateReport"
        /\ supPc # "idle" => messages'[1] = messages[1]

\* C22: in every run of main of the full agent the stages run in the order
\* clarification, brief, supervisor loop, report: the brief is written once
\* and never changed, the supervisor loop starts only once it exists,
\* generateReport is called at most once and only when runResearch has
\* returned, and the brief it receives is the one that seeded the
\* supervisor's log.
C22_StageOrder == []C22_Order /\ [][C22_OrderStep]_vars

C22_Witness ==
    /\ program = "full"
    /\ pc = "exitSaved"
    /\ reportCalls = 1
    /\ reportInput[1].researchBrief = messages[1].content
    /\ Len(clarifyMessages) > 1
Occurrences(list, x) == Cardinality({k \in 1..Len(list) : list[k] = x})

SameEntries(a, b) ==
    /\ Len(a) = Len(b)
    /\ \A k \in 1..Len(a) : Occurrences(a, a[k]) = Occurrences(b, a[k])

ToolTurns(log, name) == SelectSeq(log, LAMBDA m : m.type = "tool" /\ m.name = name)

\* C23: results of think_tool and of ResearchComplete never contribute to
\* the aggregated findings: when the supervisor has returned, the aggregate
\* holds one entry per ConductResearch call of the log, each the content of
\* that call's tool turn, and nothing else, whatever the batches mixed.
C23_OnlyResearchAggregated ==
    /\ (program = "full" /\ supPc = "returned")
          => /\ Len(researchFindings) = NumDelegated(messages)
             /\ SameEntries(researchFindings, ConductResearchContents(messages))
             /\ allFindings = Join(researchFindings, Sep)
    /\ program = "full"
          => /\ Len(researchFindings) <= NumDelegated(messages)
             /\ \A k \in 1..Len(researchFindings) :
                   researchFindings[k] \notin {Str("Reflection recorded", 0),
                                               Str("Research Completed.", 0)}
    /\ (program = "supervisor" /\ supPc = "returned")
          => /\ Len(ConductResearchContents(messages)) = NumDelegated(messages)
             /\ allFindings = Join(ConductResearchContents(messages), RuleSep)
             /\ \A k \in 1..Len(allFindings) :
                   allFindings[k] \notin {Str("Reflection recorded", 0)[1],
                                          Str("Research Completed.", 0)[1]}

C23_Witness ==
    /\ program = "full"
    /\ supPc = "returned"
    /\ ToolTurns(messages, "think_tool") # <<>>
    /\ ToolTurns(messages, "ResearchComplete") # <<>>
    /\ Len(researchFindings) = 1
AnswersPrevious(log) ==
    \A p \in 1..Len(log) :
        log[p].type = "tool"
            => /\ p > 1
               /\ log[p - 1].type = "ai"
               /\ Len(log[p - 1].tool_calls) = 1
               /\ log[p - 1].tool_calls[1].id = log[p].tool_call_id

\* C24 (as claimed): in the manual tool-selection agent every tool-result
\* turn carries the id of the tool call of the assistant turn it answers,
\* whatever the clock reads, in conductResearch and in runResearch.
C24_ManualIdsMatch ==
    program = "manual"
        => /\ AnswersPrevious(messages)
           /\ AnswersPrevious(agents[1].messages)

DistinctIds(calls) ==
    \A a, b \in 1..Len(calls) : calls[a].id = calls[b].id => a = b

\* C25 (as claimed): in the manual tool-selection agent no two tool calls of
\* the same conversation log share an id, after any number of cycles.
C25_ManualIdsUnique ==
    program = "manual"
        => /\ DistinctIds(AllCalls(messages))
           /\ DistinctIds(AllCalls(agents[1].messages))
C26_View ==
    (program = "research_agent" /\ contextMessages # <<>>)
        => /\ Len(contextMessages) <= 6
           /\ contextMessages[1] = researcher_messages[1]
           /\ contextMessages[1].type = "human"

C26_ViewStep ==
    (program = "research_agent" /\ node = "llm_call")
        => LET log == researcher_messages
               n == Len(log)
           IN /\ n <= 6 => contextMessages' = log
              /\ n > 6 => contextMessages' =
                    <<log[1],
                      AIMessage(Str("I have performed several searches and refined my plan.", 0),
                                <<>>),
                      log[n - 3], log[n - 2], log[n - 1], log[n]>>
              /\ \/ researcher_messages' = log
                 \/ /\ Len(researcher_messages') = n + 1
                    /\ SubSeq(researcher_messages', 1, n) = log
                    /\ researcher_messages'[n + 1].type = "ai"

\* C26: in llm_call of 2_research_agent.js the view sent to the model is the
\* whole log while it has at most 6 turns, and otherwise exactly the first
\* turn, one continuity note and the last 4 turns; the view never exceeds 6
\* turns, starts with the original task, and the stored log changes only by
\* the appended response.
C26_ReducedView == []C26_View /\ [][C26_ViewStep]_vars

C26_Witness ==
    /\ program = "research_agent"
    /\ Len(researcher_messages) >= 9
    /\ Len(contextMessages) = 6
    /\ contextMessages[2] = ContinuityNote
    /\ contextMessages[3] = researcher_messages[Len(researcher_messages) - 4]
\* C27 (as claimed): the compression call of 2_research_agent.js receives
\* the full log unmodified: every turn of researcher_messages, with its
\* complete content, is part of the input of the compression model call.
C27_CompressGetsFullLog ==
    (program = "research_agent" /\ compressInput # <<>>)
        => \A p \in 1..Len(researcher_messages) :
              \E q \in 1..Len(compressInput) : compressInput[q] = researcher_messages[p]

HasToken(text, kind) == \E k \in 1..Len(text) : text[k][1] = kind

IsReflection(m) ==
    \/ m.type = "tool" /\ m.name = "think_tool"
    \/ \E c \in 1..Len(m.tool_calls) : m.tool_calls[c].name = "think_tool"
    \/ HasToken(m.content, "Plan updated.")
    \/ HasToken(m.content, "Reflection recorded")

AboutToCompress(agent) ==
    \/ agent.pc = "compress"
    \/ agent.pc = "loop" /\ ~ConductResearchWhile(agent)

\* C28 (as claimed): the input handed to the compression model never holds a
\* turn produced by think_tool, neither a think_tool call nor a think_tool
\* result, in conductResearch of 4_research_supervisor.js and in
\* compress_research of 2_research_agent.js.
C28_NoReflectionCompressed ==
    /\ program = "research_agent"
          => \A q \in 1..Len(compressInput) : ~IsReflection(compressInput[q])
    /\ program = "supervisor"
          => \A i \in DOMAIN agents :
                AboutToCompress(agents[i])
                    => \A q \in 1..Len(ConductResearchCompressInput(agents[i])) :
                          ~IsReflection(ConductResearchCompressInput(agents[i])[q])
OccursAt(part, text, k) ==
    /\ k + Len(part) - 1 <= Len(text)
    /\ SubSeq(text, k, k + Len(part) - 1) = part

\* the parts occur in the text one after the other, each of them whole
RECURSIVE InOrder(_, _)
InOrder(parts, text) ==
    \/ parts = <<>>
    \/ /\ parts # <<>>
       /\ \E k \in 1..Len(text) :
            /\ OccursAt(parts[1], text, k)
            /\ InOrder(Tail(parts), SubSeq(text, k + Len(parts[1]), Len(text)))

ToolContents(log) ==
    LET kept == SelectSeq(log, LAMBDA m : m.type = "tool")
    IN [k \in 1..Len(kept) |-> kept[k].content]

RECURSIVE TotalLength(_)
TotalLength(list) ==
    IF list = <<>> THEN 0 ELSE Length(list[1]) + TotalLength(Tail(list))

\* C29: after compress_research of 2_research_agent.js raw_notes holds the
\* complete content of every tool-result turn of the log, in log order and
\* uncut, also when the text sent to the compression model was cut to 3000
\* characters.
C29_RawNotesComplete ==
    (program = "research_agent" /\ node = "END")
        => LET parts == ToolContents(researcher_messages)
           IN /\ Len(raw_notes) = 1
              /\ InOrder(parts, raw_notes[1])
              /\ Length(raw_notes[1])
                    = TotalLength(parts) + 2 * (IF parts = <<>> THEN 0 ELSE Len(parts) - 1)

SentFindings == compressInput[2].content

C29_Witness ==
    /\ program = "research_agent"
    /\ node = "END"
    /\ Len(ToolContents(researcher_messages)) >= 4
    /\ SentFindings[Len(SentFindings)] = TruncatedMark
    /\ Length(raw_notes[1]) > 3000

C30_Waits ==
    program = "research_agent"
        => /\ IsPrefix(waited, <<1000, 2000, 4000, 8000>>)
           /\ attempt > 0 => Len(waited) = attempt
           /\ (node = "thrown" /\ failed \cap {"llm_call", "compress"} # {})
                 => /\ invocations = 5
                    /\ waited = <<1000, 2000, 4000, 8000>>

C30_WaitStep ==
    (program = "research_agent" /\ node \in {"llm_call", "compress_research"})
        => /\ attempt' = attempt + 1
                 => /\ Len(waited') = attempt + 1
                    /\ SubSeq(waited', 1, attempt) = (IF attempt = 0 THEN <<>> ELSE waited)
                    /\ waited'[attempt + 1] = (2 ^ attempt) * 1000
           /\ attempt' # attempt + 1
                 => waited' = (IF attempt = 0 THEN <<>> ELSE waited)

\* C30: in invokeWithRetry the wait after the i-th failed attempt (from 0) is
\* 2^i * 1000 ms, which gives 1000, 2000, 4000, 8000 ms for the 5 attempts;
\* nothing is waited before the first attempt nor after the last failed one.
C30_Backoff == []C30_Waits /\ [][C30_WaitStep]_vars

C30_Witness ==
    /\ program = "research_agent"
    /\ node = "thrown"
    /\ invocations = 5
    /\ waited = <<1000, 2000, 4000, 8000>>
C31_Caught ==
    /\ program = "manual"
          => (agents[1].pc = "thrown" => "compress" \in failed)
    /\ program = "full"
          => \A i \in 1..Slots :
                (agents[i].pc = "thrown" /\ agents[i].compressCalls = 0)
                    => "subAgent" \in failed

C31_FailureStep ==
    ("subAgent" \notin failed /\ "subAgent" \in failed')
        => /\ program = "full"
                 => \E i \in 1..Slots :
                       /\ agents[i].pc = "loop"
                       /\ agents'[i].pc = "thrown"
                       /\ agents'[i].compressCalls = agents[i].compressCalls
                       /\ toolPromises'[i] = Fulfilled(ToolMessage(CurrentCalls[i].id,
                                                 ErrorText(ModelFailure), "ConductResearch"))
                       /\ pc' = pc
                       /\ supPc' = supPc
           /\ program = "manual"
                 => /\ agents[1].pc = "loop"
                    /\ agents'[1].pc = "compress"
                    /\ agents'[1].messages = agents[1].messages
                    /\ agents'[1].compressCalls = agents[1].compressCalls
                    /\ supPc' = supPc

Delegations(log) == SelectSeq(AllCalls(log), LAMBDA c : c.name = "ConductResearch")

\* C32: in runSupervisor of 4_research_supervisor.js the final findings are
\* read from the supervisor log: the contents of the ConductResearch tool
\* turns in log order, which is the order in which the delegations were
\* requested, whatever the order in which the sub-agents completed.
C32_DelegationOrder ==
    (program = "supervisor" /\ supPc = "returned")
        => LET requested == Delegations(messages)
               found == ToolTurns(messages, "ConductResearch")
           IN /\ Len(found) = Len(requested)
              /\ \A k \in 1..Len(found) :
                    /\ found[k].tool_call_id = requested[k].id
                    /\ found[k].content \in {Str("report", requested[k].args[1][2]),
                                             ErrorText(ModelFailure)}
              /\ allFindings = Join([k \in 1..Len(found) |-> found[k].content], RuleSep)

C32_Witness ==
    /\ program = "supervisor"
    /\ supPc = "returned"
    /\ \E p \in 1..Len(messages) : CountCalls(messages[p].tool_calls, "ConductResearch") = 2
    /\ allFindings = Str("report", 1) \o <<RuleSep>> \o Str("report", 2)
FreshThread == HumanTurns(clarifyMessages) = 1

C33_Brief ==
    program = "scoping_graph"
        => /\ (node = "END" /\ FreshThread)
                 => /\ researchBrief # Unset <=> ~response[1].need_clarification
                    /\ response[1].need_clarification
                          => /\ clarifyMessages = <<HumanMessage(inputs[1]),
                                                    AIMessage(response[1].question, <<>>)>>
                             /\ researchBrief = Unset
                             /\ messages = <<>>
                    /\ ~response[1].need_clarification
                          => clarifyMessages = <<HumanMessage(inputs[1]),
                                                 AIMessage(response[1].verification, <<>>)>>
           /\ node = "write_research_brief"
                 => (response # NoResponse /\ ~response[1].need_clarification)

C33_BriefStep ==
    (program = "scoping_graph" /\ researchBrief' # researchBrief)
        => /\ node = "write_research_brief"
           /\ ~response[1].need_clarification

\* C33: in the scoping graph on a fresh thread research_brief is set when the
\* run ends if and only if clarify_with_user got need_clarification = false
\* in that run; with need_clarification = true the run ends with exactly one
\* assistant turn, the question, appended to messages, write_research_brief
\* is not executed and research_brief stays unset.
C33_BriefIffNoClarification == []C33_Brief /\ [][C33_BriefStep]_vars

C33_Witness ==
    /\ program = "scoping_graph"
    /\ node = "END"
    /\ FreshThread
    /\ response[1].need_clarification
    /\ researchBrief = Unset
    /\ clarifyMessages[2] = AIMessage(Str("question", 1), <<>>)
C34_AskStep ==
    /\ (program \in {"full", "manual"} /\ pc = "verifyRequest" /\ pc' # "rejected"
          /\ pc' # pc)
          => /\ response'[1].need_clarification <=> pc' = "askUser"
             /\ ~response'[1].need_clarification <=> pc' = "createBrief"
    /\ (program = "scoping_lean" /\ pc = "clarify" /\ pc' # "rejected")
          => /\ response'[1].need_clarification <=> pc' = "askUser"
             /\ pc' = "brief" => ~response'[1].need_clarification
    /\ (program \in {"full", "manual", "scoping_lean"} /\ pc = "askUser")
          => /\ pc' \in {"verifyRequest", "clarify"}
             /\ Rounds(clarifyMessages') = Rounds(clarifyMessages) + 1

\* C34: the clarification stage has no iteration cap: whatever the number of
\* rounds made, an answer with need_clarification = true leads to another
\* round, and the stage goes on to the brief only on an answer with
\* need_clarification = false, in verifyRequest and in run of
\* 1_scoping_lean.js.
C34_NoClarificationCap == [][C34_AskStep]_vars

C34_Witness ==
    /\ program = "full"
    /\ pc = "createBrief"
    /\ Rounds(clarifyMessages) = MaxClarify
    /\ Len(clarifyMessages) >= 5
CarriesToolCall(m) == "tool_calls" \in DOMAIN m /\ Len(m.tool_calls) > 0

\* C35 (as claimed): evaluateNextStep returns score true exactly when (the
\* last message carries at least one tool call) equals (the reference
\* next_step is "continue"), for every last message, one without a
\* tool_calls field or with an empty tool_calls list included.
C35_ScoreIsAgreement ==
    (program = "research_agent_evaluation" /\ pc = "exit")
        => LET log == evalInput.outputs.researcher_messages
           IN evalResult[1].score
                 = (CarriesToolCall(log[Len(log)])
                       = (evalInput.referenceOutputs.next_step = "continue"))
ScoredOne(details) == Cardinality({k \in 1..Len(details) : details[k].score = 1})

FailedEvaluations(details) ==
    {k \in 1..Len(details) : details[k].reasoning = "Evaluation failed due to error"}

\* C36: the brief evaluators never propagate an evaluator-model failure.  In
\* evaluateSuccessCriteria a failing criterion evaluation counts as score 0
\* and the remaining criteria are still evaluated; the score returned is the
\* number of criteria scored 1 over the number of criteria, between 0 and 1.
\* With no extracted criteria evaluateSuccessCriteria returns 0 and
\* evaluateHallucination returns 1, neither calling the model; a failing
\* hallucination evaluation returns score 0.
C36_EvaluatorsContainFailures ==
    program = "scoping_evaluation"
        => LET criteria == extractCriteriaFromConversation(evalInput.messages)
           IN /\ pc \in {"evaluateSuccessCriteria", "criterion", "evaluateHallucination",
                         "exit"}
              /\ thrown = EmptyStr
              /\ pc \in {"evaluateHallucination", "exit"}
                    => LET result == evalResult[1]
                       IN /\ result.key = "success_criteria_score"
                          /\ 0 <= result.score.num
                          /\ result.score.num <= result.score.den
                          /\ criteria # <<>>
                                => /\ Len(result.details) = Len(criteria)
                                   /\ \A k \in FailedEvaluations(result.details) :
                                         result.details[k].score = 0
                                   /\ result.score.num = ScoredOne(result.details)
                                   /\ result.score.den = Len(criteria)
                          /\ criteria = <<>>
                                => result.score = Ratio(0, 1) /\ evalLocals.calls = 0
              /\ pc = "exit"
                    => /\ Len(evalResult) = 2
                       /\ evalResult[2].key = "hallucination_score"
                       /\ criteria = <<>>
                             => evalResult[2].score = Ratio(1, 1) /\ evalLocals.calls = 0
                       /\ "hallucination" \in failed => evalResult[2].score = Ratio(0, 1)
                       /\ criteria # <<>> => evalLocals.calls = Len(criteria) + 1

C36_Witness ==
    /\ program = "scoping_evaluation"
    /\ pc = "exit"
    /\ failed = {"criterion", "hallucination"}
    /\ Len(evalResult[1].details) = 3
    /\ evalResult[1].details[1].reasoning = "Evaluation failed due to error"
    /\ evalResult[1].score = Ratio(2, 3)
TurnsWithToolCalls(log) ==
    Cardinality({k \in 1..Len(log) : log[k].type = "ai" /\ Len(log[k].tool_calls) > 0})

C37_Counted ==
    program = "full"
        => /\ supPc = "loop" => iterations = TurnsWithToolCalls(messages)
           /\ \A i \in 1..Len(agents) :
                 agents[i].pc = "loop"
                    => agents[i].iterations = TurnsWithToolCalls(agents[i].messages)

C37_GrowStep ==
    (program = "full" /\ pc = "runResearch" /\ pc' = "runResearch")
        => /\ IsPrefix(messages, messages')
           /\ \A i \in 1..Len(agents) :
                 (agents[i].pc = "loop" /\ agents'[i].pc \in {"loop", "compress"})
                    => IsPrefix(agents[i].messages, agents'[i].messages)

\* C37: in runResearch and conductResearch of the full agent, at every loop
\* head iterations equals the number of assistant turns of the loop's log that
\* carry at least one tool call, and every step only appends to the log: the
\* earlier turns stay at their positions with unchanged content.
C37_IterationsCountToolTurns == []C37_Counted /\ [][C37_GrowStep]_vars

C37_Witness ==
    /\ program = "full"
    /\ supPc = "loop"
    /\ iterations = 2
    /\ Len(messages) >= 6
    /\ \E k \in 1..Len(messages) :
         messages[k].type = "ai" /\ Len(messages[k].tool_calls) = 2
    /\ \E k \in 1..Len(messages) : messages[k].type = "tool"
\* C38: invokeWithRetry never completes normally without a model response:
\* for every value of retries, zero and negative values included, it returns
\* the response of a successful model invocation or throws the model's error.
C38_ResponseOrError ==
    (program = "invokeWithRetry" /\ pc = "exit")
        => \/ evalResult[1].how = "thrown" /\ evalLocals.invocations >= 1
           \/ /\ evalResult[1].how = "returned"
              /\ "type" \in DOMAIN evalResult[1].value
              /\ evalResult[1].value.type = "ai"
              /\ evalLocals.invocations >= 1
\* C39: in the view llm_call of 2_research_agent.js sends to the model, every
\* tool-result turn is preceded by the assistant turn that issued its tool
\* call, whatever the number of tool calls per assistant turn.
C39_ToolTurnsFollowTheirCall ==
    program = "research_agent"
        => \A k \in 1..Len(contextMessages) :
              contextMessages[k].type = "tool"
                 => \E j \in 1..(k - 1) :
                       /\ contextMessages[j].type = "ai"
                       /\ \E c \in 1..Len(contextMessages[j].tool_calls) :
                             contextMessages[j].tool_calls[c].id
                                = contextMessages[k].tool_call_id
\* the assistant turns of the log whose tool calls tool_node has answered
Dispatched(log) ==
    Cardinality({p \in 1..(Len(log) - 1) :
                    /\ log[p].type = "ai"
                    /\ log[p].tool_calls # <<>>
                    /\ log[p + 1].type = "tool"})

\* C40: in the graph of part_003 tool_call_iterations never exceeds 3 and,
\* whenever tool_node is not about to run, equals the number of tool batches
\* tool_node has dispatched; tool_node runs at most 3 times in a run.
C40_IterationsWithinCap ==
    (program = "part_003" /\ thrown = EmptyStr)
        => /\ tool_call_iterations <= 3
           /\ Dispatched(researcher_messages) <= 3
           /\ node # "tool_node"
                 => tool_call_iterations = Dispatched(researcher_messages)
====
